---------------------------- MODULE Spec2Model ----------------------------
(***************************************************************************)
(* Programs of the repository, side by side; each specification runs one   *)
(* of them and leaves the state of the others idle.                        *)
(*                                                                         *)
(*   Spec, DeepSpec, FairSpec   res/res_digitmap.c                         *)
(*   TranslateSpec              the pattern loop of res/res_digitmap.c     *)
(*   EuniqueidSpec              funcs/func_euniqueid.c                     *)
(*   CwcidSpec                  apps/app_callerid.c                        *)
(*   DspeedSpec                 res/res_dialpulse.c                        *)
(*                                                                         *)
(* Device digit map generation (res/res_digitmap.c).                       *)
(*                                                                         *)
(* generate_digit_map_all() walks a dialplan context, its priority-1       *)
(* extensions and, recursively, its includes, and writes one '|'-led       *)
(* alternative per extension into a fixed buffer of BUF_SIZE bytes.        *)
(*                                                                         *)
(* Text is modelled as sequences of one-character strings.  The C call     *)
(* stack of generate_digit_map() is the sequence `frames`; every action    *)
(* is one step of the innermost call.                                      *)
(***************************************************************************)
EXTENDS Integers, Sequences, FiniteSets, TLC

VARIABLES
    store,          \* the dialplan: context name -> [exts, includes, ignorepat]
    pc,             \* "idle" | "running" | "done" | "crashed"
    root,           \* context_name given to generate_digit_map_all
    frames,         \* call stack of generate_digit_map, innermost last
    mem,            \* buf[] of generate_digit_map_all, as the C string it holds
    includes,       \* includes[0 .. includecount-1]
    includecount,   \* geninfo.includecount
    locks,          \* contexts read-locked by this thread, in acquisition order
    log,            \* ast_log / ast_debug calls made so far
    retval,         \* value returned by generate_digit_map_all, once pc = "done"
    cli,            \* the lines ast_cli printed
    \* the pattern loop on its own
    pattern,        \* the pattern name handed to the loop
    outputs,        \* what the loop wrote for pattern, and then for its own output
    \* funcs/func_euniqueid.c
    channels,       \* names of the channels that exist
    uniqueids,      \* the list uniqueids: entries [id, channel], head first
    listlock,       \* holder of the list's write lock, or NoThread
    threads,        \* thread -> position and locals of its call
    allocated,      \* calls returned so far: [thread, channel, id, kept, removed]
    \* apps/app_callerid.c
    cwcid,          \* position, locals and effects of one cwcid_exec
    \* res/res_dialpulse.c
    dspeed          \* position, locals and effects of one dspeed_exec

dmvars == <<store, pc, root, frames, mem, includes, includecount, locks, log, retval, cli>>

trvars == <<pattern, outputs>>

euvars == <<channels, uniqueids, listlock, threads, allocated>>

cwvars == <<cwcid>>

dsvars == <<dspeed>>

vars == <<dmvars, trvars, euvars, cwvars, dsvars>>

\* what a step of the digit map generation leaves alone
beside_digitmap == <<trvars, euvars, cwvars, dsvars>>

NoThread == "none"

\* the programs at rest
TranslatorIdle == pattern = <<>> /\ outputs = <<>>

EuniqueidIdle ==
    /\ channels = {}
    /\ uniqueids = <<>>
    /\ listlock = NoThread
    /\ threads = <<>>
    /\ allocated = <<>>

CwcidIdle == cwcid = [pc |-> "idle"]

DspeedIdle == dspeed = [pc |-> "idle"]

---------------------------------------------------------------------------
(* Program constants *)

BUF_SIZE == 2048

AST_PBX_MAX_STACK == 128

NEWPREFIX_SIZE == 32

---------------------------------------------------------------------------
(* Bounds of the explored dialplans *)

MaxExts == 2        \* extensions of the context in the single-context family

MaxIncs == 3        \* include entries, in total, of a store of the include family

MaxSub == 16        \* longest sub-prefix of the long-prefix family

---------------------------------------------------------------------------
(* Text helpers *)

Min(a, b) == IF a < b THEN a ELSE b

RECURSIVE Rep(_, _)
Rep(s, n) == IF n <= 0 THEN <<>> ELSE s \o Rep(s, n - 1)

RECURSIVE Flatten(_)
Flatten(ss) == IF ss = <<>> THEN <<>> ELSE Head(ss) \o Flatten(Tail(ss))

\* index of the first occurrence of ch in s at or after position from; 0 if none
strchr(s, ch, from) ==
    LET hits == {k \in from..Len(s) : s[k] = ch}
    IN  IF hits = {} THEN 0 ELSE CHOOSE k \in hits : \A j \in hits : k <= j

tolower(ch) ==
    CASE ch = "A" -> "a"
      [] ch = "B" -> "b"
      [] ch = "C" -> "c"
      [] ch = "G" -> "g"
      [] OTHER -> ch

strcasecmp_eq(a, b) ==
    /\ Len(a) = Len(b)
    /\ \A k \in 1..Len(a) : tolower(a[k]) = tolower(b[k])


---------------------------------------------------------------------------
(* The dialplan store (external: asterisk/pbx.h), at its interface *)

Ext(nm, prio) == [name |-> nm, priority |-> prio]

Context(es, is, ip) == [exts |-> es, includes |-> is, ignorepat |-> ip]

\* ast_context_find: lookup by exact name
ast_context_find(st, name) == name \in DOMAIN st

\* ast_ignore_pattern: does an ignorepat of context `name` match `firstchar`
ast_ignore_pattern(st, name, firstchar) ==
    /\ name \in DOMAIN st
    /\ firstchar \in st[name].ignorepat

A == <<"A">>
B == <<"B">>
C == <<"C">>
Ghost == <<"g", "h", "o", "s", "t">>

Digit(k) == <<"0", "1", "2", "3", "4", "5", "6", "7", "8", "9">>[k + 1]

\* the k-th context of a chain of includes: A, c002, c003, ...
ChainName(k) ==
    IF k = 1 THEN A
    ELSE <<"c", Digit(k \div 100), Digit((k \div 10) % 10), Digit(k % 10)>>

---------------------------------------------------------------------------
(* Explored dialplans *)

SeqsUpTo(S, n) == UNION {[1..k -> S] : k \in 0..n}

\* extension entries of the single-context family
ExtPool ==
    { Ext(<<"_", "1", "X", "X", "X">>, 1),
      Ext(<<"_", "N", "X", "X">>, 1),
      Ext(<<"9", "1", "1">>, 2),
      Ext(<<"s">>, 1),
      Ext(<<"t">>, 2),
      Ext(<<"_", "s">>, 1),
      Ext(<<"_">>, 1),
      Ext(<<"_", "9", "Z", "!">>, 1),
      Ext(<<"_", "2", "[", "0", "3", "-", "9", "]">>, 1),
      Ext(<<"_", "9", ".">>, 1) }

IgnorePool == { {}, {"9"}, {"1", "2"} }

ExtStores ==
    { (A :> Context(es, <<>>, ip)) : es \in SeqsUpTo(ExtPool, MaxExts), ip \in IgnorePool }

\* include entries of the include family: "B||9", "C", "A", "ghost"
IncPool ==
    { <<"B", "|", "|", "9">>,
      <<"C">>,
      <<"A">>,
      Ghost }

ExtsA == << Ext(<<"_", "1", "X", "X", "X">>, 1), Ext(<<"s">>, 1) >>
ExtsB == << Ext(<<"_", "N", "X", "X">>, 1), Ext(<<"_">>, 1) >>
ExtsC == << Ext(<<"9", "1", "1">>, 2), Ext(<<"_", "9", ".">>, 1) >>

\* which context carries an ignorepat for "9" or "1": none, A or B
IncIgnore ==
    { [a |-> {}, b |-> {}], [a |-> {"9"}, b |-> {}], [a |-> {}, b |-> {"9", "1"}] }

IncStores ==
    UNION { { (A :> Context(ExtsA, x, ig.a)) @@ (B :> Context(ExtsB, y, ig.b))
                @@ (C :> Context(ExtsC, z, {})) :
              x \in [1..n[1] -> IncPool], y \in [1..n[2] -> IncPool],
              z \in [1..n[3] -> IncPool], ig \in IncIgnore } :
            n \in { m \in (0..MaxIncs) \X (0..MaxIncs) \X (0..MaxIncs) :
                    m[1] + m[2] + m[3] <= MaxIncs } }

\* hand-picked include shapes outside the pool: the two-context example of
\* the specification, a first argument in front of the prefix, a lower-case
\* spelling of a context on the stack, a name followed by ",options", an
\* empty name, an include with a first argument only, a diamond with prefixes
ScenarioStore ==
    (A :> Context(<< Ext(<<"_", "1", "X", "X", "X">>, 1) >>, << <<"B", "|", "|", "9">> >>, {}))
      @@ (B :> Context(<< Ext(<<"_", "N", "X", "X">>, 1) >>, <<>>, {}))

ShapeStores ==
    { ScenarioStore,
      (A :> Context(ExtsA, << <<"C", "|", "t", "|", "1">>, <<"B">> >>, {}))
        @@ (B :> Context(ExtsB, << <<"C", "|", "t", "|", "1">> >>, {"1"}))
        @@ (C :> Context(ExtsC, <<>>, {})),
      (A :> Context(ExtsA, << <<"B">> >>, {}))
        @@ (B :> Context(ExtsB, << <<"a", ",", "x", "|", "t", "|", "5">>, <<"b">> >>, {})),
      (A :> Context(ExtsA, << <<"|", "x", "|", "9">>, <<",", "x">>, <<"B", ",", "x">> >>, {}))
        @@ (B :> Context(ExtsB, <<>>, {})),
      (A :> Context(ExtsA, << <<"B", "|", "x">>, <<"C">> >>, {}))
        @@ (B :> Context(ExtsB, <<>>, {})) @@ (C :> Context(ExtsC, <<>>, {})),
      (A :> Context(ExtsA, << <<"B", "|", "|", "8">>, <<"C", "|", "|", "7">> >>, {}))
        @@ (B :> Context(ExtsB, << <<"C", "|", "|", "6">> >>, {}))
        @@ (C :> Context(ExtsC, <<>>, {"7"})) }

\* a pattern of n 'N's: each alternative takes 1 + 5n bytes without a prefix
BigExt(n) == Ext(<<"_">> \o Rep(<<"N">>, n), 1)

Fill(k) == [j \in 1..k |-> BigExt(63)]

\* dialplans whose expansion is near or beyond BUF_SIZE
OverflowStores ==
    { (A :> Context(Fill(6) \o tail, <<>>, {})) :
        tail \in { << BigExt(30) >>,
                   << Ext(<<"_">> \o Rep(<<"N">>, 30) \o <<"1">>, 1) >>,
                   << Ext(<<"_">> \o Rep(<<"N">>, 29) \o <<"X", "N">>, 1),
                      Ext(<<"_", "1">>, 1) >>,
                   << BigExt(30), Ext(<<"_", "1">>, 1) >> } }
    \cup
    { (A :> Context(Fill(3), << <<"B">>, <<"B">> >>, {})) @@ (B :> Context(Fill(3), <<>>, {})),
      (A :> Context(Fill(6), << <<"B", "|", "|">> \o Rep(<<"7">>, 16), <<"C">> >>, {"7"}))
        @@ (B :> Context(<< BigExt(26), Ext(<<"_", "1">>, 1) >>, <<>>, {}))
        @@ (C :> Context(ExtsC, <<>>, {})) }

\* chains A -> B -> C whose sub-prefixes add up to about NEWPREFIX_SIZE
LongPrefixStores ==
    { (A :> Context(ExtsA, << <<"B", "|", "|">> \o Rep(<<"7">>, l1) >>, {}))
        @@ (B :> Context(ExtsB, << <<"C", "|", "|">> \o Rep(<<"8">>, l2) >>, {}))
        @@ (C :> Context(ExtsC, <<>>, {})) :
      l1 \in {MaxSub - 1, MaxSub}, l2 \in {MaxSub - 1, MaxSub} }

\* a chain A -> c002 -> c003 -> ... longer than AST_PBX_MAX_STACK, whose context at
\* depth AST_PBX_MAX_STACK also includes the first one
ChainLen == AST_PBX_MAX_STACK + 2

ChainStore ==
    [ nm \in {ChainName(k) : k \in 1..ChainLen} |->
        LET k == CHOOSE j \in 1..ChainLen : ChainName(j) = nm
        IN  Context(<< Ext(<<Digit(k % 10)>>, 1) >>,
                    (IF k = AST_PBX_MAX_STACK THEN << ChainName(1) >> ELSE <<>>)
                      \o (IF k < ChainLen THEN << ChainName(k + 1) >> ELSE <<>>),
                    {}) ]

\* patterns with one bracket class: bare digits, one range, two ranges, a
\* digit and a range, a digit between two ranges; patterns whose brackets do
\* not match
ClassPool ==
    { <<"_", "[", "0", "2", "3", "]">>,
      <<"_", "[", "2", "-", "9", "]">>,
      <<"_", "[", "2", "-", "4", "6", "-", "9", "]">>,
      <<"_", "[", "0", "2", "-", "9", "]">>,
      <<"_", "1", "[", "0", "-", "2", "5", "7", "-", "9", "]", "X">>,
      <<"_", "[", "[", "1", "]", "]">>,
      <<"_", "]", "N", "[", "[", "[", "2">> }

ClassStores == { (A :> Context(<< Ext(nm, 1) >>, <<>>, {})) : nm \in ClassPool }

\* dialplans of at most three contexts
Stores == ExtStores \cup IncStores \cup ShapeStores \cup OverflowStores
            \cup LongPrefixStores \cup ClassStores

\* the same, and the deep chain
DeepStores == Stores \cup {ChainStore}

Roots == {A, Ghost}

---------------------------------------------------------------------------
(* The bounded output buffer *)

\* snprintf(buf + at, size, "%s", frag) seen on the C string held in mem:
\* at most size - 1 characters of frag are stored, then the terminator
snprintf(m, at, size, frag) ==
    IF size = 0 THEN m
    ELSE SubSeq(m, 1, at) \o SubSeq(frag, 1, Min(Len(frag), size - 1))

\* buf_append with the capacity test off by one
buf_append_gt(w, frag) ==
    LET bytes == Len(frag)
        m     == snprintf(w.mem, w.buf, w.len, frag)
    IN  IF bytes > w.len
        THEN [w EXCEPT !.mem = m, !.res = -1, !.brk = TRUE]
        ELSE [w EXCEPT !.mem = m, !.buf = @ + bytes, !.len = @ - bytes]

\* buf_append moving the cursor over what a failed snprintf stored
buf_append_partial(w, frag) ==
    LET bytes == Len(frag)
        m     == snprintf(w.mem, w.buf, w.len, frag)
    IN  IF bytes >= w.len
        THEN [w EXCEPT !.mem = m, !.res = -1, !.brk = TRUE,
                       !.buf = @ + (w.len - 1), !.len = 1]
        ELSE [w EXCEPT !.mem = m, !.buf = @ + bytes, !.len = @ - bytes]

\* The buf_append macro on a cursor w = [mem, buf, len, res, brk]; brk is the
\* macro's break out of the enclosing loop.
buf_append(w, frag) ==
    LET bytes == Len(frag)
        m     == snprintf(w.mem, w.buf, w.len, frag)
    IN  IF bytes >= w.len
        THEN [w EXCEPT !.mem = m, !.res = -1, !.brk = TRUE]
        ELSE [w EXCEPT !.mem = m, !.buf = @ + bytes, !.len = @ - bytes]

\* an append that is skipped once an earlier one of the same loop body broke out
then_append(w, frag) == IF w.brk THEN w ELSE buf_append(w, frag)

---------------------------------------------------------------------------
(* Diagnostics *)

Msg(level, text, a, b) == [level |-> level, msg |-> text, a |-> a, b |-> b]

NoText == <<>>

---------------------------------------------------------------------------
(* The pattern translator: one iteration of the loop over the pattern name *)

\* the reserved names recognised behind the pattern sentinel as well
IsSpecialExten_stripped(name) ==
    (IF name # <<>> /\ Head(name) = "_" THEN Tail(name) ELSE name)
        \in { <<"a">>, <<"i">>, <<"s">>, <<"t">> }

\* line 94: the special dialplan extensions, compared with the stored name
IsSpecialExten(name) == name \in { <<"a">>, <<"i">>, <<"s">>, <<"t">> }

StripSentinel(name) == IF name # <<>> /\ Head(name) = "_" THEN Tail(name) ELSE name

\* X copied as it stands
Expansion_keeps_X(ch) ==
    CASE ch = "N" -> <<"[", "2", "-", "9", "]">>
      [] ch = "Z" -> <<"[", "1", "-", "9", "]">>
      [] ch = "!" -> <<"S", "0">>
      [] OTHER -> <<ch>>

\* what N, Z, X and ! expand to; every other character is copied
Expansion(ch) ==
    CASE ch = "N" -> <<"[", "2", "-", "9", "]">>
      [] ch = "Z" -> <<"[", "1", "-", "9", "]">>
      [] ch = "X" -> <<"x">>
      [] ch = "!" -> <<"S", "0">>
      [] OTHER -> <<ch>>

IsExpanded(ch) == ch \in {"N", "Z", "X", "!"}

\* the bracket bookkeeping with '-' counted as one more item of the class
\* and never as a range
Bracket_range_uncounted(b, ch) ==
    IF ch = "["
    THEN [ in_pattern |-> 1, current_pattern_items |-> 0, contains_range |-> 0,
           warn |-> IF b.in_pattern + 1 > 1 THEN <<"Dialplan is invalid">> ELSE <<>> ]
    ELSE IF ch = "]"
    THEN [ in_pattern |-> IF b.in_pattern - 1 < 0 THEN 0 ELSE b.in_pattern - 1,
           current_pattern_items |-> 0, contains_range |-> 0,
           warn |-> (IF b.in_pattern - 1 < 0 THEN <<"Dialplan is invalid">> ELSE <<>>)
                    \o (IF b.contains_range # 0 /\ b.current_pattern_items > 1
                        THEN <<"Generated digit map will be invalid">> ELSE <<>>) ]
    ELSE IF b.in_pattern # 0
    THEN IF ch = "."
         THEN [b EXCEPT !.warn = <<"Dialplan is invalid: periods should not appear inside []">>]
         ELSE [b EXCEPT !.current_pattern_items = @ + 1, !.warn = <<>>]
    ELSE [b EXCEPT !.warn = <<>>]

\* the bracket bookkeeping with the depth counted up and down without limit
Bracket_unclamped(b, ch) ==
    IF ch = "["
    THEN [ in_pattern |-> b.in_pattern + 1, current_pattern_items |-> 0, contains_range |-> 0,
           warn |-> IF b.in_pattern + 1 > 1 THEN <<"Dialplan is invalid">> ELSE <<>> ]
    ELSE IF ch = "]"
    THEN [ in_pattern |-> b.in_pattern - 1, current_pattern_items |-> 0, contains_range |-> 0,
           warn |-> (IF b.in_pattern - 1 < 0 THEN <<"Dialplan is invalid">> ELSE <<>>)
                    \o (IF b.contains_range # 0 /\ b.current_pattern_items > 1
                        THEN <<"Generated digit map will be invalid">> ELSE <<>>) ]
    ELSE IF b.in_pattern # 0
    THEN IF ch = "."
         THEN [b EXCEPT !.warn = <<"Dialplan is invalid: periods should not appear inside []">>]
         ELSE IF ch = "-"
         THEN [b EXCEPT !.current_pattern_items = @ - 1, !.contains_range = @ + 1,
                        !.warn = <<>>]
         ELSE [b EXCEPT !.current_pattern_items = @ + 1, !.warn = <<>>]
    ELSE [b EXCEPT !.warn = <<>>]

\* the bracket bookkeeping of lines 146-177 on b = [in_pattern,
\* current_pattern_items, contains_range, warn], for a character copied literally
Bracket(b, ch) ==
    IF ch = "["
    THEN [ in_pattern |-> 1,
           current_pattern_items |-> 0,
           contains_range |-> 0,
           warn |-> IF b.in_pattern + 1 > 1 THEN <<"Dialplan is invalid">> ELSE <<>> ]
    ELSE IF ch = "]"
    THEN [ in_pattern |-> IF b.in_pattern - 1 < 0 THEN 0 ELSE b.in_pattern - 1,
           current_pattern_items |-> 0,
           contains_range |-> 0,
           warn |-> (IF b.in_pattern - 1 < 0 THEN <<"Dialplan is invalid">> ELSE <<>>)
                    \o (IF b.contains_range # 0 /\ b.current_pattern_items > 1
                        THEN <<"Generated digit map will be invalid">> ELSE <<>>) ]
    ELSE IF b.in_pattern # 0
    THEN IF ch = "."
         THEN [b EXCEPT !.warn = <<"Dialplan is invalid: periods should not appear inside []">>]
         ELSE IF ch = "-"
         THEN [b EXCEPT !.current_pattern_items = @ - 1, !.contains_range = @ + 1,
                        !.warn = <<>>]
         ELSE [b EXCEPT !.current_pattern_items = @ + 1, !.warn = <<>>]
    ELSE [b EXCEPT !.warn = <<>>]


\* the iteration copying N, Z, X and ! as they stand inside a bracket class
PatternIteration_literal_in_class(f, m) ==
    LET ch   == Head(f.name)
        w0   == [mem |-> m, buf |-> f.buf, len |-> f.len, res |-> f.res, brk |-> FALSE]
        pre  == f.prefix # <<>> /\ f.ignorepat # 0
        w1   == IF pre THEN buf_append(w0, <<",">>) ELSE w0
        ig1  == IF pre /\ ~w1.brk THEN 0 ELSE f.ignorepat
        b0   == [ in_pattern |-> f.in_pattern,
                  current_pattern_items |-> f.current_pattern_items,
                  contains_range |-> f.contains_range,
                  warn |-> <<>> ]
        b1   == IF w1.brk \/ (IsExpanded(ch) /\ f.in_pattern = 0) THEN b0 ELSE Bracket(b0, ch)
        w2   == then_append(w1, IF f.in_pattern # 0 THEN <<ch>> ELSE Expansion(ch))
        post == ~w2.brk /\ f.prefix = <<>> /\ ig1 # 0
        w3   == IF post THEN buf_append(w2, <<",">>) ELSE w2
        ig3  == IF post /\ ~w3.brk THEN 0 ELSE ig1
    IN  [w |-> w3, ignorepat |-> ig3, b |-> b1]

\* One iteration of the inner loop (lines 126-186) of frame f on buffer m:
\* the ',' before the character when there is a prefix, the character's
\* translation, the ',' after the first character when there is no prefix.
PatternIteration(f, m) ==
    LET ch   == Head(f.name)
        w0   == [mem |-> m, buf |-> f.buf, len |-> f.len, res |-> f.res, brk |-> FALSE]
        pre  == f.prefix # <<>> /\ f.ignorepat # 0
        w1   == IF pre THEN buf_append(w0, <<",">>) ELSE w0
        ig1  == IF pre /\ ~w1.brk THEN 0 ELSE f.ignorepat
        b0   == [ in_pattern |-> f.in_pattern,
                  current_pattern_items |-> f.current_pattern_items,
                  contains_range |-> f.contains_range,
                  warn |-> <<>> ]
        b1   == IF w1.brk \/ IsExpanded(ch) THEN b0 ELSE Bracket(b0, ch)
        w2   == then_append(w1, Expansion(ch))
        post == ~w2.brk /\ f.prefix = <<>> /\ ig1 # 0
        w3   == IF post THEN buf_append(w2, <<",">>) ELSE w2
        ig3  == IF post /\ ~w3.brk THEN 0 ELSE ig1
    IN  [w |-> w3, ignorepat |-> ig3, b |-> b1]

---------------------------------------------------------------------------
(* Include entries *)

\* lines 204-224: the context name in front of the first '|' or ',', and as
\* tmp2 everything behind the second '|'; tmp2 is NULL (null = TRUE) when
\* there is a first '|' and no second one
ParseInclude(inc) ==
    LET p1    == strchr(inc, "|", 1)
        head  == IF p1 = 0 THEN inc ELSE SubSeq(inc, 1, p1 - 1)
        rest  == IF p1 = 0 THEN <<>> ELSE SubSeq(inc, p1 + 1, Len(inc))
        p2    == strchr(rest, "|", 1)
        comma == strchr(head, ",", 1)
    IN  [ includename |-> IF comma = 0 THEN head ELSE SubSeq(head, 1, comma - 1),
          tmp2        |-> IF p1 = 0 \/ p2 = 0 THEN <<>> ELSE SubSeq(rest, p2 + 1, Len(rest)),
          null        |-> p1 # 0 /\ p2 = 0 ]

\* the cycle guard left out
IsDupe_never(incs, count, includename) == FALSE

\* the cycle guard starting at the second stack slot
IsDupe_from_second(incs, count, includename) ==
    \E x \in 2..count : strcasecmp_eq(incs[x], includename)

\* the cycle guard looking at the innermost stack slot only
IsDupe_top_only(incs, count, includename) ==
    count >= 1 /\ strcasecmp_eq(incs[count], includename)

\* the cycle guard stopping short of the innermost stack slot
IsDupe_below_top(incs, count, includename) ==
    \E x \in 1..(count - 1) : strcasecmp_eq(incs[x], includename)

\* the cycle guard refusing every context the generation has entered before
IsDupe_entered_before(incs, count, includename) ==
    \E k \in 1..Len(log) :
        log[k].msg = "Crawling context" /\ strcasecmp_eq(log[k].a, includename)

\* lines 232-237: is includename on the include stack, compared without case
IsDupe(incs, count, includename) ==
    \E x \in 1..count : strcasecmp_eq(incs[x], includename)

\* what printf prints for a NULL string where it does not fault
NullText == <<"(", "n", "u", "l", "l", ")">>

\* line 241: snprintf(newprefix, sizeof(newprefix), "%s%s", prefix, tmp2)
NewPrefix(prefix, tmp2) ==
    SubSeq(prefix \o tmp2, 1, Min(Len(prefix \o tmp2), NEWPREFIX_SIZE - 1))

---------------------------------------------------------------------------
(* Frames of generate_digit_map *)

NewFrame(prefix, context, buf, len) ==
    [ prefix |-> prefix, context |-> context, buf |-> buf, len |-> len,
      start |-> buf, res |-> 0, pc |-> "find", e |-> 0, name |-> <<>>,
      startbuf |-> buf, ignorepat |-> 0, in_pattern |-> 0,
      current_pattern_items |-> 0, contains_range |-> 0, idx |-> 0, ret |-> 0 ]

Depth == Len(frames)

Top == frames[Depth]

SetTop(f) == [frames EXCEPT ![Depth] = f]

Running == pc = "running" /\ Depth > 0


---------------------------------------------------------------------------
(* Initial state: a loaded dialplan, no generation under way *)

DigitmapInit(stores) ==
    /\ store \in stores
    /\ pc = "idle"
    /\ root = <<>>
    /\ frames = <<>>
    /\ mem = <<>>
    /\ includes = <<>>
    /\ includecount = 0
    /\ locks = <<>>
    /\ log = <<>>
    /\ retval = 0
    /\ cli = <<>>

\* no dialplan loaded, no generation asked for
DigitmapIdle == DigitmapInit({<<>>})

InitOver(stores) ==
    /\ DigitmapInit(stores)
    /\ TranslatorIdle
    /\ EuniqueidIdle
    /\ CwcidIdle
    /\ DspeedIdle

Init == InitOver(Stores)

DeepInit == InitOver(DeepStores)

---------------------------------------------------------------------------
(* Actions *)

\* generate_digit_map_all, lines 268-277: the call of generate_digit_map(NULL, ...)
GenerateAll ==
    /\ pc = "idle"
    /\ \E r \in Roots :
        /\ root' = r
        /\ frames' = << NewFrame(<<>>, r, 0, BUF_SIZE) >>
    /\ pc' = "running"
    /\ UNCHANGED <<store, mem, includes, includecount, locks, log, retval, cli>>
    /\ UNCHANGED beside_digitmap

\* generate_digit_map, lines 71-85: look the context up, push it, lock it
Find ==
    /\ Running
    /\ Top.pc = "find"
    /\ IF ~ast_context_find(store, Top.context)
       THEN /\ log' = Append(log, Msg("WARNING", "No such context", Top.context, NoText))
            /\ frames' = SetTop([Top EXCEPT !.pc = "ret", !.ret = -1])
            /\ UNCHANGED <<includes, includecount, locks>>
       ELSE /\ includes' = SubSeq(includes, 1, includecount) \o <<Top.context>>
            /\ includecount' = includecount + 1
            /\ locks' = Append(locks, Top.context)
            /\ frames' = SetTop([Top EXCEPT !.pc = "exts"])
            /\ log' = Append(log, Msg("DEBUG", "Crawling context", Top.context, Top.prefix))
    /\ UNCHANGED <<store, pc, root, mem, retval, cli>>
    /\ UNCHANGED beside_digitmap

\* lines 86-124: the next extension of the walk; skip it, or open its
\* alternative with '|' and the prefix
NextExten ==
    /\ Running
    /\ Top.pc = "exts"
    /\ LET f    == Top
           exts == store[f.context].exts
           e    == f.e + 1
       IN  IF e > Len(exts)
           THEN \* end of the walk, lines 190-192
                /\ frames' = SetTop([f EXCEPT !.pc = "incs"])
                /\ log' = IF f.res # 0 /\ f.len <= 0
                          THEN Append(log, Msg("WARNING", "No space left in digit map buffer",
                                               NoText, NoText))
                          ELSE log
                /\ mem' = mem
           ELSE IF IsSpecialExten(exts[e].name) \/ exts[e].priority # 1
           THEN /\ frames' = SetTop([f EXCEPT !.e = e])
                /\ UNCHANGED <<log, mem>>
           ELSE LET name      == StripSentinel(exts[e].name)
                    firstchar == IF f.prefix # <<>> THEN Head(f.prefix)
                                 ELSE IF name # <<>> THEN Head(name) ELSE ""
                    ignorepat == IF \E i \in 1..includecount :
                                       ast_ignore_pattern(store, includes[i], firstchar)
                                 THEN 1 ELSE 0
                    w0 == [mem |-> mem, buf |-> f.buf, len |-> f.len, res |-> f.res,
                           brk |-> FALSE]
                    w1 == buf_append(w0, <<"|">>)
                    w2 == then_append(w1, f.prefix)
                    g  == [f EXCEPT !.e = e, !.buf = w2.buf, !.len = w2.len, !.res = w2.res,
                                    !.name = name, !.startbuf = w1.buf,
                                    !.ignorepat = ignorepat, !.in_pattern = 0,
                                    !.current_pattern_items = 0, !.contains_range = 0]
                IN  /\ mem' = w2.mem
                    /\ IF w2.brk
                       THEN \* break out of the walk
                            /\ frames' = SetTop([g EXCEPT !.pc = "incs"])
                            /\ log' = log
                       ELSE IF name = <<>>
                       THEN /\ frames' = SetTop(g)
                            /\ log' = Append(log, Msg("DEBUG", "Added to digit map",
                                          SubSeq(w2.mem, w1.buf + 1, Len(w2.mem)),
                                          exts[e].name))
                       ELSE /\ frames' = SetTop([g EXCEPT !.pc = "chars"])
                            /\ log' = log
    /\ UNCHANGED <<store, pc, root, includes, includecount, locks, retval, cli>>
    /\ UNCHANGED beside_digitmap

\* lines 126-187: one character of the pattern name
PatternChar ==
    /\ Running
    /\ Top.pc = "chars"
    /\ LET f    == Top
           it   == PatternIteration(f, mem)
           w    == it.w
           last == w.brk \/ Tail(f.name) = <<>>
           raw  == store[f.context].exts[f.e].name
           warn == [k \in 1..Len(it.b.warn) |-> Msg("WARNING", it.b.warn[k], raw, NoText)]
       IN  /\ mem' = w.mem
           /\ frames' = SetTop([f EXCEPT !.buf = w.buf, !.len = w.len, !.res = w.res,
                                          !.ignorepat = it.ignorepat,
                                          !.in_pattern = it.b.in_pattern,
                                          !.current_pattern_items = it.b.current_pattern_items,
                                          !.contains_range = it.b.contains_range,
                                          !.name = IF w.brk THEN @ ELSE Tail(@),
                                          !.pc = IF last THEN "exts" ELSE "chars"])
           /\ log' = log \o warn \o
                     (IF last
                      THEN << Msg("DEBUG", "Added to digit map",
                                  SubSeq(w.mem, f.startbuf + 1, Len(w.mem)), raw) >>
                      ELSE <<>>)
    /\ UNCHANGED <<store, pc, root, includes, includecount, locks, retval, cli>>
    /\ UNCHANGED beside_digitmap

\* the loop condition of line 195
MoreIncludes(f) == f.res >= 0 /\ f.idx < Len(store[f.context].includes)

\* the include entries taken from the last to the first
IncludeAt_reversed(f) ==
    store[f.context].includes[Len(store[f.context].includes) - f.idx]

\* line 196: ast_context_includes_get(c, idx)
IncludeAt(f) == store[f.context].includes[f.idx + 1]

\* the failure test taken for a test of "nothing written"
DriverResult_only_zero(res, m) ==
    IF res = 0
    THEN [retval |-> res, printed |-> <<>>]
    ELSE [retval |-> 0, printed |-> << SubSeq(m, 2, Len(m)) >>]

\* the buffer printed from its first character
DriverResult_whole(res, m) ==
    IF res <= 0
    THEN [retval |-> res, printed |-> <<>>]
    ELSE [retval |-> 0, printed |-> << m >>]

\* lines 279-299: what generate_digit_map_all returns and prints for the
\* result res of the outermost call and the buffer m
DriverResult(res, m) ==
    IF res <= 0
    THEN [retval |-> res, printed |-> <<>>]
    ELSE [retval |-> 0, printed |-> << SubSeq(m, 2, Len(m)) >>]

\* the depth test passing a stack that is exactly full
StackFull_gt(count) == count > AST_PBX_MAX_STACK

\* line 199: is the include stack at its maximum
StackFull(count) == count >= AST_PBX_MAX_STACK

\* lines 195-243: one include entry: skip it (depth, empty name, circular) or
\* call generate_digit_map for the included context.  A NULL tmp2 handed to
\* snprintf's %s is undefined: it prints "(null)" or the process faults.
Include ==
    /\ Running
    /\ Top.pc = "incs"
    /\ MoreIncludes(Top)
    /\ LET f   == Top
           inc == IncludeAt(f)
           p   == ParseInclude(inc)
           skip(text, a, b) ==
               /\ log' = Append(log, Msg("WARNING", text, a, b))
               /\ frames' = SetTop([f EXCEPT !.idx = @ + 1])
               /\ pc' = pc
       IN  IF StackFull(includecount)
           THEN skip("Maximum include depth exceeded!", NoText, NoText)
           ELSE IF p.includename = <<>>
           THEN skip("Empty include context", NoText, NoText)
           ELSE IF IsDupe(includes, includecount, p.includename)
           THEN skip("Avoiding circular include", inc, f.context)
           ELSE \E fault \in IF p.null THEN {FALSE, TRUE} ELSE {FALSE} :
                  IF fault
                  THEN /\ pc' = "crashed"
                       /\ UNCHANGED <<frames, log>>
                  ELSE /\ frames' = Append(SetTop([f EXCEPT !.pc = "call"]),
                                       NewFrame(NewPrefix(f.prefix,
                                                    IF p.null THEN NullText ELSE p.tmp2),
                                                p.includename, f.buf, f.len))
                       /\ UNCHANGED <<pc, log>>
    /\ UNCHANGED <<store, root, mem, includes, includecount, locks, retval, cli>>
    /\ UNCHANGED beside_digitmap

\* the locks ls without the last acquisition of ctx
RemoveLock(ls, ctx) ==
    LET k == CHOOSE j \in 1..Len(ls) :
                 /\ ls[j] = ctx
                 /\ \A i \in (j + 1)..Len(ls) : ls[i] # ctx
    IN  SubSeq(ls, 1, k - 1) \o SubSeq(ls, k + 1, Len(ls))

\* the lock kept when the call leaves with a failure
ast_unlock_context_unless_failed(ls, f) ==
    IF f.res < 0 THEN ls ELSE RemoveLock(ls, f.context)

\* line 259: the call f releases the read lock of its context
ast_unlock_context(ls, f) == RemoveLock(ls, f.context)

\* the slot left as it was
ClearSlot_stale(incs, slot) == incs

\* line 263: includes[slot] = NULL, slot counted from 0
ClearSlot(incs, slot) == SubSeq(incs, 1, slot)

\* the cursor returned in place of the bytes written
ReturnValue_cursor(f) == IF f.res < 0 THEN f.res ELSE f.buf

\* line 265: -1 on failure, the bytes written on success
ReturnValue(f) == IF f.res < 0 THEN f.res ELSE f.buf - f.start

\* lines 259-265: unlock, pop the include stack, compute the return value
Leave ==
    /\ Running
    /\ Top.pc = "incs"
    /\ ~MoreIncludes(Top)
    /\ LET f == Top
       IN  /\ locks' = ast_unlock_context(locks, f)
           /\ includecount' = includecount - 1
           /\ includes' = ClearSlot(includes, includecount - 1)
           /\ frames' = SetTop([f EXCEPT !.pc = "ret", !.ret = ReturnValue(f)])
    /\ UNCHANGED <<store, pc, root, mem, log, retval, cli>>
    /\ UNCHANGED beside_digitmap

\* lines 243-255: back in the including call
Return ==
    /\ Running
    /\ Depth >= 2
    /\ Top.pc = "ret"
    /\ LET res    == Top.ret
           caller == frames[Depth - 1]
       IN  frames' = [SubSeq(frames, 1, Depth - 1) EXCEPT ![Depth - 1] =
                        [caller EXCEPT !.res = res,
                                       !.buf = IF res > 0 THEN @ + res ELSE @,
                                       !.len = IF res > 0 THEN @ - res ELSE @,
                                       !.idx = IF res < 0 THEN @ ELSE @ + 1,
                                       !.pc = "incs"]]
    /\ UNCHANGED <<store, pc, root, mem, includes, includecount, locks, log, retval, cli>>
    /\ UNCHANGED beside_digitmap

\* generate_digit_map_all, lines 277-299: fail, or print the buffer behind
\* its first character
Finish ==
    /\ Running
    /\ Depth = 1
    /\ Top.pc = "ret"
    /\ LET r == DriverResult(Top.ret, mem)
       IN  /\ retval' = r.retval
           /\ cli' = cli \o r.printed
    /\ frames' = <<>>
    /\ pc' = "done"
    /\ UNCHANGED <<store, root, mem, includes, includecount, locks, log>>
    /\ UNCHANGED beside_digitmap

Next ==
    \/ GenerateAll
    \/ Find
    \/ NextExten
    \/ PatternChar
    \/ Include
    \/ Leave
    \/ Return
    \/ Finish

Spec == Init /\ [][Next]_vars

\* the same program over the dialplans that include the deep chain
DeepSpec == DeepInit /\ [][Next]_vars

\* the generation runs in one thread without suspension points: a step that
\* can be taken is taken
FairSpec == DeepSpec /\ WF_vars(Next)

---------------------------------------------------------------------------
(* What the specification expects, stated independently of the actions *)

Done == pc = "done"

RootFound == root \in DOMAIN store

\* the digit-map image of one pattern character
Image(ch) ==
    IF ch = "N" THEN <<"[", "2", "-", "9", "]">>
    ELSE IF ch = "Z" THEN <<"[", "1", "-", "9", "]">>
    ELSE IF ch = "X" THEN <<"x">>
    ELSE IF ch = "!" THEN <<"S", "0">>
    ELSE <<ch>>

RECURSIVE Translate(_)
Translate(name) ==
    IF name = <<>> THEN <<>> ELSE Image(Head(name)) \o Translate(Tail(name))

RECURSIVE Join(_)
Join(alts) ==
    IF alts = <<>> THEN <<>>
    ELSE IF Len(alts) = 1 THEN alts[1]
    ELSE alts[1] \o <<"|">> \o Join(Tail(alts))

Unsentinel(name) == IF Len(name) > 0 /\ name[1] = "_" THEN SubSeq(name, 2, Len(name)) ELSE name

Reserved == { <<"a">>, <<"i">>, <<"s">>, <<"t">> }

\* an entry that takes part: priority 1 and a name that is not reserved
TakesPart(ext) == ext.priority = 1 /\ ext.name \notin Reserved

\* the first dialed digit of an alternative
FirstDialed(prefix, name) ==
    IF prefix # <<>> THEN prefix[1] ELSE IF name # <<>> THEN name[1] ELSE ""

\* the ignore predicate over the contexts of a stack
IgnoredOn(stack, digit) ==
    \E k \in 1..Len(stack) : stack[k] \in DOMAIN store /\ digit \in store[stack[k]].ignorepat

\* one alternative: prefix, pattern, and the second-dial-tone marker behind
\* the first dialed digit
ExpectedAlt(prefix, name, marked) ==
    IF ~marked THEN prefix \o Translate(name)
    ELSE IF prefix # <<>> THEN prefix \o <<",">> \o Translate(name)
    ELSE IF name = <<>> THEN <<>>
    ELSE Image(name[1]) \o <<",">> \o Translate(SubSeq(name, 2, Len(name)))

OnStack(stack, name) == \E k \in 1..Len(stack) : strcasecmp_eq(stack[k], name)

\* the alternatives of context ctx reached with prefix and the stack above
\* it, own extensions first, then each include in order; an include that is
\* circular, too deep, unnamed or dangling contributes nothing
RECURSIVE ExpectedAlts(_, _, _)
ExpectedAlts(ctx, prefix, above) ==
    LET c     == store[ctx]
        stack == Append(above, ctx)
        part  == SelectSeq(c.exts, TakesPart)
        own   == [k \in 1..Len(part) |->
                    LET name == Unsentinel(part[k].name)
                    IN  ExpectedAlt(prefix, name,
                                    IgnoredOn(stack, FirstDialed(prefix, name)))]
        sub(k) == LET p == ParseInclude(c.includes[k])
                  IN  IF \/ p.includename = <<>>
                         \/ p.includename \notin DOMAIN store
                         \/ OnStack(stack, p.includename)
                         \/ Len(stack) >= AST_PBX_MAX_STACK
                      THEN <<>>
                      ELSE ExpectedAlts(p.includename, prefix \o p.tmp2, stack)
    IN  own \o Flatten([k \in 1..Len(c.includes) |-> sub(k)])

\* bytes the whole expansion takes in the buffer, each alternative led by '|'
RECURSIVE SumLen(_)
SumLen(alts) == IF alts = <<>> THEN 0 ELSE 1 + Len(Head(alts)) + SumLen(Tail(alts))

FullLen == SumLen(ExpectedAlts(root, <<>>, <<>>))

\* the map handed to the caller: nothing printed is the empty map
Map == IF cli = <<>> THEN <<>> ELSE cli[1]

HasLog(level, text) == \E k \in 1..Len(log) : log[k].level = level /\ log[k].msg = text

Logged(text, a) == \E k \in 1..Len(log) : log[k].msg = text /\ log[k].a = a

CountLog(text, a) == Cardinality({k \in 1..Len(log) : log[k].msg = text /\ log[k].a = a})

---------------------------------------------------------------------------
(* C1 *)

\* an include below the root named a context the store does not hold
DanglingSeen == RootFound /\ \E k \in 1..Len(log) : log[k].msg = "No such context"

\* C1: a generation that met a dangling include still succeeds: it returns 0,
\* delivers a map, and has visited every resolvable context the root includes,
\* also those listed behind the dangling entry.
C1_DanglingIncludeNonFatal ==
    (Done /\ DanglingSeen) =>
        /\ retval = 0
        /\ Len(cli) = 1
        /\ \A k \in 1..Len(store[root].includes) :
              LET t == ParseInclude(store[root].includes[k]).includename
              IN  (t \in DOMAIN store /\ ~strcasecmp_eq(t, root))
                    => Logged("Crawling context", t)

---------------------------------------------------------------------------
(* C2 *)

\* the expansion with its terminator does not fit the buffer
WouldNotFit == RootFound /\ FullLen + 1 > BUF_SIZE

\* C2: the bytes committed to the output (every call's write cursor) and the
\* string held in the buffer never exceed the capacity, and a generation
\* whose full expansion would not fit fails and prints no map at all.
C2_CapacityNeverExceeded ==
    /\ Len(mem) < BUF_SIZE
    /\ \A k \in 1..Depth : frames[k].buf <= BUF_SIZE
    /\ (Done /\ WouldNotFit) => (retval = -1 /\ cli = <<>>)

\* an expansion of more than BUF_SIZE bytes was cut off in the buffer and
\* the call failed without printing
C2_Witness ==
    /\ Done
    /\ WouldNotFit
    /\ retval = -1
    /\ cli = <<>>
    /\ Len(mem) > 0
    /\ ~HasLog("WARNING", "No such context")

---------------------------------------------------------------------------
(* C3 *)

Finished == pc \in {"done", "crashed"}

\* the innermost call is at an include entry whose target is on the include stack
CircularIncludeMet ==
    /\ Running
    /\ Top.pc = "incs"
    /\ MoreIncludes(Top)
    /\ ParseInclude(IncludeAt(Top)).includename # <<>>
    /\ OnStack(SubSeq(includes, 1, includecount), ParseInclude(IncludeAt(Top)).includename)

CircularMsg == Msg("WARNING", "Avoiding circular include", IncludeAt(Top), Top.context)

DepthMsg == Msg("WARNING", "Maximum include depth exceeded!", NoText, NoText)

---------------------------------------------------------------------------
(* C4 *)

\* the alternatives of a map, split at '|'
RECURSIVE Split(_)
Split(text) ==
    LET p == strchr(text, "|", 1)
    IN  IF p = 0 THEN <<text>>
        ELSE <<SubSeq(text, 1, p - 1)>> \o Split(SubSeq(text, p + 1, Len(text)))

Count(seq, x) == Cardinality({k \in 1..Len(seq) : seq[k] = x})

Targets(ctx) ==
    [k \in 1..Len(store[ctx].includes) |-> ParseInclude(store[ctx].includes[k]).includename]

\* the chain A -> B -> A, started at A: A includes B only, B includes A only
ChainABA ==
    /\ root = A
    /\ A \in DOMAIN store /\ B \in DOMAIN store
    /\ Targets(A) = <<B>>
    /\ Len(Targets(B)) >= 1
    /\ \A k \in 1..Len(Targets(B)) : Targets(B)[k] = A

\* C4: in the chain A -> B -> A the include of A inside B is skipped with the
\* circular-include diagnostic, A is visited once, each of its priority-1
\* non-meta extensions appears exactly once in the map, and the call succeeds.
C4_ChainABAEmitsAOnce ==
    (Done /\ ChainABA) =>
        /\ retval = 0
        /\ Len(cli) = 1
        /\ \A k \in 1..Len(store[B].includes) :
              \E j \in 1..Len(log) :
                  log[j] = Msg("WARNING", "Avoiding circular include", store[B].includes[k], B)
        /\ CountLog("Crawling context", A) = 1
        /\ CountLog("Crawling context", B) = 1
        /\ \A k \in 1..Len(store[A].exts) :
              TakesPart(store[A].exts[k]) =>
                  LET name == Unsentinel(store[A].exts[k].name)
                      alt  == ExpectedAlt(<<>>, name, IgnoredOn(<<A>>, FirstDialed(<<>>, name)))
                  IN  Count(Split(Map), alt) = 1

\* the chain was generated and A's pattern stands in the delivered map
C4_Witness ==
    /\ Done
    /\ ChainABA
    /\ Logged("Avoiding circular include", A)
    /\ Count(Split(Map), <<"1", "x", "x", "x">>) = 1
    /\ Len(Split(Map)) > 1

---------------------------------------------------------------------------
(* C5 *)

\* C5: when the root context does not resolve, no lock is taken, nothing is
\* pushed on the include stack, nothing is written or printed, and the call
\* returns the failure -1 after the "No such context" diagnostic.
C5_RootNotFound ==
    (pc # "idle" /\ ~RootFound) =>
        /\ locks = <<>>
        /\ includes = <<>>
        /\ includecount = 0
        /\ mem = <<>>
        /\ cli = <<>>
        /\ Done => (retval = -1 /\ log = << Msg("WARNING", "No such context", root, NoText) >>)

\* a call for a context the store does not hold has returned
C5_Witness == Done /\ ~RootFound /\ retval = -1 /\ frames = <<>>

---------------------------------------------------------------------------
(* C6 *)

\* the translated forms of the entries of ctx that take part, in store order
OwnForms(ctx) ==
    LET part == SelectSeq(store[ctx].exts, TakesPart)
    IN  [k \in 1..Len(part) |-> Translate(Unsentinel(part[k].name))]

\* one context, no includes, no ignore pattern matching a first digit
SingleContext ==
    /\ RootFound
    /\ store[root].includes = <<>>
    /\ \A k \in 1..Len(store[root].exts) :
          ~IgnoredOn(<<root>>, FirstDialed(<<>>, Unsentinel(store[root].exts[k].name)))

---------------------------------------------------------------------------
(* C7 *)

Visit(kind, name) == [kind |-> kind, name |-> name]

\* pre-order of the include tree: the context, its own entries that take
\* part, then each include that is entered, in store order
RECURSIVE ExpectedVisits(_, _)
ExpectedVisits(ctx, above) ==
    LET c     == store[ctx]
        stack == Append(above, ctx)
        part  == SelectSeq(c.exts, TakesPart)
        sub(k) == LET t == ParseInclude(c.includes[k]).includename
                  IN  IF \/ t = <<>>
                         \/ t \notin DOMAIN store
                         \/ OnStack(stack, t)
                         \/ Len(stack) >= AST_PBX_MAX_STACK
                      THEN <<>>
                      ELSE ExpectedVisits(t, stack)
    IN  <<Visit("context", ctx)>>
          \o [k \in 1..Len(part) |-> Visit("exten", part[k].name)]
          \o Flatten([k \in 1..Len(c.includes) |-> sub(k)])

IsVisit(m) == m.msg \in {"Crawling context", "Added to digit map"}

\* the contexts entered and the alternatives added so far, as logged
Visits ==
    LET ev == SelectSeq(log, IsVisit)
    IN  [k \in 1..Len(ev) |->
            IF ev[k].msg = "Crawling context"
            THEN Visit("context", ev[k].a) ELSE Visit("exten", ev[k].b)]

\* the text of the alternatives added so far
AddedTexts ==
    LET ev == SelectSeq(log, LAMBDA m : m.msg = "Added to digit map")
    IN  [k \in 1..Len(ev) |-> ev[k].a]

IsPrefix(s, t) == Len(s) <= Len(t) /\ SubSeq(t, 1, Len(s)) = s

\* C7: contexts are entered and alternatives are added in pre-order (own
\* extensions in store order, then the includes in store order, each one's
\* extensions before its nested includes); a successful generation has made
\* the whole pre-order and its map is the added alternatives in that order;
\* the two-context example yields exactly 1xxx|9[2-9]xx.
C7_PreOrder ==
    RootFound =>
        /\ IsPrefix(Visits, ExpectedVisits(root, <<>>))
        /\ (Done /\ retval = 0) =>
              /\ Visits = ExpectedVisits(root, <<>>)
              /\ Map = Join(AddedTexts)
        /\ (Done /\ store = ScenarioStore) =>
              cli = << <<"1", "x", "x", "x", "|", "9", "[", "2", "-", "9", "]", "x", "x">> >>

\* a successful generation entered two different includes of the root, the
\* first of which has an include of its own
C7_Witness ==
    /\ Done
    /\ retval = 0
    /\ RootFound
    /\ \E i, j \in 1..Len(Visits) :
          /\ i < j
          /\ Visits[i] = Visit("context", B)
          /\ Visits[j] = Visit("context", C)
          /\ Targets(A)[1] = B
          /\ Len(Targets(A)) = 2
          /\ Targets(A)[2] = C
          /\ Len(Targets(B)) >= 1
    /\ Len(Split(Map)) >= 4

---------------------------------------------------------------------------
(* C8 *)

\* no include on the path to the innermost call lacks its second '|'
PathWellFormed == \A j \in 1..(Depth - 1) : ~ParseInclude(IncludeAt(frames[j])).null

\* the sub-prefixes of the includes on the path to the innermost call, in
\* path order
PathPrefix == Flatten([j \in 1..(Depth - 1) |-> ParseInclude(IncludeAt(frames[j])).tmp2])

\* the text of the alternative the innermost call is writing or wrote last
CurrentAlt == SubSeq(mem, Top.startbuf + 1, Top.buf)

\* C8: an alternative opened in a context reached through includes begins
\* with the concatenation, in path order, of all the sub-prefixes of the
\* includes on the path, whatever the depth and the length of the prefix.
C8_FullPrefixOnEveryAlternative ==
    (Running /\ Depth >= 2 /\ Top.pc = "chars" /\ Top.res >= 0 /\ PathWellFormed) =>
        /\ Top.prefix = PathPrefix
        /\ IsPrefix(PathPrefix, CurrentAlt)

---------------------------------------------------------------------------
(* C9 *)

\* the stored names of the alternatives the innermost call has added: the
\* "Added to digit map" entries behind the last "Crawling context" entry
OwnAdded ==
    LET from == CHOOSE k \in 0..Len(log) :
                   /\ k > 0 => log[k].msg = "Crawling context"
                   /\ \A j \in (k + 1)..Len(log) : log[j].msg # "Crawling context"
        ev   == SelectSeq(SubSeq(log, from + 1, Len(log)),
                          LAMBDA m : m.msg = "Added to digit map")
    IN  [k \in 1..Len(ev) |-> ev[k].b]

\* the names of the entries among the first n of ctx that satisfy Test
Chosen(ctx, n, Test(_)) ==
    LET part == SelectSeq(SubSeq(store[ctx].exts, 1, n), Test)
    IN  [k \in 1..Len(part) |-> part[k].name]

\* priority 1, and not reserved once the sentinel is stripped
TakesPartStripped(ext) == ext.priority = 1 /\ Unsentinel(ext.name) \notin Reserved

\* the innermost call is between two entries of its walk and has not failed
BetweenEntries == Running /\ Top.pc = "exts" /\ Top.res >= 0

\* C9 as stated: the entries that have contributed an alternative are those
\* of priority 1 whose name, the sentinel stripped, is not reserved.
C9_Original ==
    BetweenEntries => OwnAdded = Chosen(Top.context, Top.e, TakesPartStripped)

\* C9, amended: the entries that have contributed an alternative are those
\* of priority 1 whose stored name is not one of "a", "i", "s", "t"; a
\* reserved name behind the sentinel, as in "_s", contributes at priority 1.
C9_ContributesIffPriorityOneAndNotReserved ==
    BetweenEntries => OwnAdded = Chosen(Top.context, Top.e, TakesPart)

\* the walk has passed "s" and "_s", both of priority 1: the first was
\* skipped and the second stands in the output as "s"
C9_Witness ==
    /\ BetweenEntries
    /\ Top.e = 2
    /\ store[Top.context].exts[1] = Ext(<<"s">>, 1)
    /\ store[Top.context].exts[2] = Ext(<<"_", "s">>, 1)
    /\ OwnAdded = << <<"_", "s">> >>
    /\ mem = <<"|", "s">>

---------------------------------------------------------------------------
(* C10 *)

HasMarker(text) == \E k \in 1..Len(text) : text[k] = ","

\* C10: the alternative an entry has contributed holds the second-dial-tone
\* marker exactly when the ignore predicate holds, in a context on the
\* include stack, for its first dialed digit (the first character of the
\* prefix when there is one, else of the stripped name).
C10_MarkerIffIgnored ==
    (BetweenEntries /\ Top.e >= 1 /\ TakesPart(store[Top.context].exts[Top.e])) =>
        (HasMarker(CurrentAlt)
            <=> IgnoredOn(SubSeq(includes, 1, includecount),
                          FirstDialed(Top.prefix,
                                      Unsentinel(store[Top.context].exts[Top.e].name))))

---------------------------------------------------------------------------
(* C11 *)

\* the entry whose alternative the innermost call added last
LastEntry == store[Top.context].exts[Top.e]

\* an alternative has just been completed by an entry that takes part
AlternativeAdded == BetweenEntries /\ Top.e >= 1 /\ TakesPart(LastEntry)

\* the ignore predicate holds for the first dialed digit of the last entry
LastIgnored ==
    IgnoredOn(SubSeq(includes, 1, includecount),
              FirstDialed(Top.prefix, Unsentinel(LastEntry.name)))

\* C11: an alternative with an ignore match holds exactly one ',', right
\* behind the prefix when there is one and else right behind the translation
\* of the first pattern character; an alternative without a match is the
\* prefix and the translated pattern, with no ',' added.
C11_OneMarkerAtItsPlace ==
    AlternativeAdded =>
        CurrentAlt = ExpectedAlt(Top.prefix, Unsentinel(LastEntry.name), LastIgnored)

---------------------------------------------------------------------------
(* C12 *)

\* C12: a generation whose root exists and whose expansion fits the capacity
\* ends successfully.
C12_FailsOnlyForRootOrCapacity ==
    (Done /\ RootFound /\ ~WouldNotFit) => retval = 0

---------------------------------------------------------------------------
(* C13 *)

\* C13: a generation that wrote nothing succeeds with the empty map; one
\* that wrote something and succeeded delivers the buffer without its first
\* character, that character is '|', and the map does not begin with '|'.
C13_LeadingSeparatorStripped ==
    (Done /\ retval = 0) =>
        /\ mem = <<>> => cli = <<>>
        /\ mem # <<>> =>
              /\ cli = << SubSeq(mem, 2, Len(mem)) >>
              /\ mem[1] = "|"
              /\ Map # <<>> => Map[1] # "|"

---------------------------------------------------------------------------
(* C14 *)

MixedClass == <<"_", "2", "[", "0", "3", "-", "9", "]">>

IsSuffix(s, t) == Len(s) <= Len(t) /\ SubSeq(t, Len(t) - Len(s) + 1, Len(t)) = s

\* C14: when the walk has passed the priority-1 entry _2[03-9] without a
\* failure, the warning that the map will be invalid was logged for it when
\* its class was closed, its alternative holds the class [03-9] as written
\* (the whole of 2[03-9] when no ignore pattern matches), and the generation
\* of a context that fits still ends successfully with that warning logged.
C14_MixedClassWarnsAndIsCopied ==
    /\ (AlternativeAdded /\ LastEntry.name = MixedClass) =>
          /\ Len(log) >= 2
          /\ log[Len(log)] = Msg("DEBUG", "Added to digit map", CurrentAlt, MixedClass)
          /\ log[Len(log) - 1] = Msg("WARNING", "Generated digit map will be invalid",
                                     MixedClass, NoText)
          /\ IsSuffix(<<"[", "0", "3", "-", "9", "]">>, CurrentAlt)
          /\ ~LastIgnored => CurrentAlt = Top.prefix \o <<"2", "[", "0", "3", "-", "9", "]">>
    /\ (Done /\ RootFound /\ store[root].includes = <<>> /\ ~WouldNotFit
            /\ \E k \in 1..Len(store[root].exts) : store[root].exts[k] = Ext(MixedClass, 1)) =>
          /\ retval = 0
          /\ Logged("Generated digit map will be invalid", MixedClass)
          /\ Len(cli) = 1

\* a context holding _2[03-9] and a second pattern was generated: the warning
\* was logged and the map holds 2[03-9] in front of the second alternative
C14_Witness ==
    /\ Done
    /\ retval = 0
    /\ Logged("Generated digit map will be invalid", MixedClass)
    /\ cli = << <<"2", "[", "0", "3", "-", "9", "]", "|", "[", "2", "-", "9", "]", "x", "x">> >>

---------------------------------------------------------------------------
(* The pattern loop of generate_digit_map on its own: lines 126-186 run on a
   name with no prefix and no ignore match, into an empty buffer *)

MaxPat == 3         \* longest pattern handed to the loop

PatternAlphabet == {"N", "Z", "X", "!", "1", "[", "-", "]", ".", "x"}

Patterns == SeqsUpTo(PatternAlphabet, MaxPat)

\* the loop of lines 126-186 from frame f on buffer m, to its end or its break
RECURSIVE pattern_loop(_, _)
pattern_loop(f, m) ==
    IF f.name = <<>> THEN m
    ELSE LET it == PatternIteration(f, m)
         IN  IF it.w.brk THEN it.w.mem
             ELSE pattern_loop([f EXCEPT !.buf = it.w.buf, !.len = it.w.len,
                                         !.res = it.w.res, !.ignorepat = it.ignorepat,
                                         !.in_pattern = it.b.in_pattern,
                                         !.current_pattern_items = it.b.current_pattern_items,
                                         !.contains_range = it.b.contains_range,
                                         !.name = Tail(@)],
                               it.w.mem)

\* what the loop writes for name
translate_name(name) ==
    pattern_loop([NewFrame(<<>>, <<>>, 0, BUF_SIZE) EXCEPT !.name = name], <<>>)

TranslateInit ==
    /\ pattern \in Patterns
    /\ outputs = <<>>
    /\ DigitmapIdle
    /\ EuniqueidIdle
    /\ CwcidIdle
    /\ DspeedIdle

\* the loop run on the pattern
TranslatePattern ==
    /\ outputs = <<>>
    /\ outputs' = << translate_name(pattern) >>
    /\ UNCHANGED <<pattern, dmvars, euvars, cwvars, dsvars>>

\* the loop run on what it wrote
Retranslate ==
    /\ Len(outputs) = 1
    /\ outputs' = Append(outputs, translate_name(outputs[1]))
    /\ UNCHANGED <<pattern, dmvars, euvars, cwvars, dsvars>>

TranslateNext ==
    \/ TranslatePattern
    \/ Retranslate

TranslateSpec == TranslateInit /\ [][TranslateNext]_vars

---------------------------------------------------------------------------
(* C15 *)

SourceOnly == {"N", "Z", "X", "!"}

\* C15: what the loop writes holds none of N, Z, X, !, and running the loop
\* on its own output gives that output again.
C15_TranslationIdempotent ==
    /\ \A k \in 1..Len(outputs) : \A i \in 1..Len(outputs[k]) : outputs[k][i] \notin SourceOnly
    /\ Len(outputs) = 2 => outputs[2] = outputs[1]

\* a pattern with N, X and ! was translated twice
C15_Witness ==
    /\ pattern = <<"N", "X", "!">>
    /\ Len(outputs) = 2
    /\ outputs[1] = <<"[", "2", "-", "9", "]", "x", "S", "0">>
    /\ outputs[2] = outputs[1]

---------------------------------------------------------------------------
(* funcs/func_euniqueid.c: EPHEMERAL_UNIQUEID and "euniqueid show channels".
   Every channel runs its dialplan in a thread of its own and exists until
   that thread hangs it up; the CLI runs in one more thread. *)

MaxCalls == 3       \* calls of EPHEMERAL_UNIQUEID begun, over all threads

MaxShows == 1       \* runs of "euniqueid show channels"

Chans == {"ch1", "ch2", "ch3"}

CliThread == "cli"

\* the caller of a read that has no channel
NoChannel == "nochan"

EuThreads == Chans \cup {CliThread}

\* struct uniqueid: the fields id and channel
Uniqueid(id, channel) == [id |-> id, channel |-> channel]

\* ast_channel_get_by_name(name) finds a channel
ast_channel_get_by_name(name) == name \in channels

\* the write lock taken whoever holds it
WrlockFree_always == TRUE

\* AST_RWLIST_WRLOCK can be taken: nobody holds the lock
WrlockFree == listlock = NoThread

\* the ID behind highest_id, without the step to the next one
NextId_same(highest_id) == IF highest_id # -1 THEN highest_id ELSE 0

\* lines 96-100: the ID to use
NextId(highest_id) == IF highest_id # -1 THEN highest_id + 1 ELSE 0

\* the list without its k-th entry
RemoveAt(list, k) == SubSeq(list, 1, k - 1) \o SubSeq(list, k + 1, Len(list))

\* calls begun so far: those returned and those under way
CallsBegun ==
    Len(allocated) + Cardinality({t \in Chans : threads[t].pc \notin {"dialplan", "gone"}})

EuniqueidInit ==
    /\ channels = Chans
    /\ uniqueids = <<>>
    /\ listlock = NoThread
    /\ threads = [t \in EuThreads |->
                    [pc |-> IF t = CliThread THEN "prompt" ELSE "dialplan",
                     cur |-> 0, highest_id |-> -1, id |-> -1, shown |-> <<>>, shows |-> 0]]
    /\ allocated = <<>>
    /\ DigitmapIdle
    /\ TranslatorIdle
    /\ CwcidIdle
    /\ DspeedIdle

\* euniqueid_read without a channel, lines 75-79: -1, and the list untouched
ReadWithoutChannel ==
    /\ CallsBegun < MaxCalls
    /\ allocated' = Append(allocated, Uniqueid(-1, NoChannel))
    /\ UNCHANGED <<channels, uniqueids, listlock, threads>>
    /\ UNCHANGED <<dmvars, trvars, cwvars, dsvars>>

\* a channel's dialplan calls EPHEMERAL_UNIQUEID: euniqueid_read up to line 81
ReadCalled(t) ==
    /\ t \in Chans
    /\ threads[t].pc = "dialplan"
    /\ CallsBegun < MaxCalls
    /\ threads' = [threads EXCEPT ![t].pc = "wrlock"]
    /\ UNCHANGED <<channels, uniqueids, listlock, allocated>>
    /\ UNCHANGED <<dmvars, trvars, cwvars, dsvars>>

\* line 81: AST_RWLIST_WRLOCK returns
ReadWrlock(t) ==
    /\ t \in Chans
    /\ threads[t].pc = "wrlock"
    /\ WrlockFree
    /\ listlock' = t
    /\ threads' = [threads EXCEPT ![t].pc = "traverse", ![t].cur = 1, ![t].highest_id = -1]
    /\ UNCHANGED <<channels, uniqueids, allocated>>
    /\ UNCHANGED <<dmvars, trvars, cwvars, dsvars>>

\* lines 83-100: one entry of the purge, or its end and the choice of the ID
ReadTraverse(t) ==
    /\ t \in Chans
    /\ threads[t].pc = "traverse"
    /\ LET k == threads[t].cur
       IN  IF k > Len(uniqueids)
           THEN /\ threads' = [threads EXCEPT ![t].pc = "insert",
                                               ![t].id = NextId(threads[t].highest_id)]
                /\ UNCHANGED uniqueids
           ELSE IF ast_channel_get_by_name(uniqueids[k].channel)
           THEN /\ threads' = [threads EXCEPT ![t].cur = k + 1,
                                               ![t].highest_id = uniqueids[k].id]
                /\ UNCHANGED uniqueids
           ELSE /\ uniqueids' = RemoveAt(uniqueids, k)
                /\ UNCHANGED threads
    /\ UNCHANGED <<channels, listlock, allocated>>
    /\ UNCHANGED <<dmvars, trvars, cwvars, dsvars>>

\* lines 101-117: ast_calloc fails (unlock, -1) or the entry is appended, the
\* lock released and the ID returned
ReadInsert(t) ==
    /\ t \in Chans
    /\ threads[t].pc = "insert"
    /\ \E calloc_ok \in BOOLEAN :
          IF calloc_ok
          THEN /\ uniqueids' = Append(uniqueids, Uniqueid(threads[t].id, t))
               /\ allocated' = Append(allocated, Uniqueid(threads[t].id, t))
          ELSE /\ UNCHANGED uniqueids
               /\ allocated' = Append(allocated, Uniqueid(-1, t))
    /\ listlock' = IF listlock = t THEN NoThread ELSE listlock
    /\ threads' = [threads EXCEPT ![t].pc = "dialplan", ![t].cur = 0,
                                   ![t].highest_id = -1, ![t].id = -1]
    /\ UNCHANGED channels
    /\ UNCHANGED <<dmvars, trvars, cwvars, dsvars>>

\* the channel's thread ends its dialplan and the channel is destroyed
Hangup(t) ==
    /\ t \in Chans
    /\ threads[t].pc = "dialplan"
    /\ channels' = channels \ {t}
    /\ threads' = [threads EXCEPT ![t].pc = "gone"]
    /\ UNCHANGED <<uniqueids, listlock, allocated>>
    /\ UNCHANGED <<dmvars, trvars, cwvars, dsvars>>

\* handle_show_channels, lines 139-140: the header, then AST_RWLIST_WRLOCK
ShowWrlock ==
    /\ threads[CliThread].pc = "prompt"
    /\ threads[CliThread].shows < MaxShows
    /\ WrlockFree
    /\ listlock' = CliThread
    /\ threads' = [threads EXCEPT ![CliThread].pc = "purge", ![CliThread].cur = 1,
                                   ![CliThread].shows = @ + 1]
    /\ UNCHANGED <<channels, uniqueids, allocated>>
    /\ UNCHANGED <<dmvars, trvars, cwvars, dsvars>>

\* lines 142-151: one entry of the purge
ShowPurge ==
    /\ threads[CliThread].pc = "purge"
    /\ LET k == threads[CliThread].cur
       IN  IF k > Len(uniqueids)
           THEN /\ threads' = [threads EXCEPT ![CliThread].pc = "print"]
                /\ UNCHANGED uniqueids
           ELSE IF ast_channel_get_by_name(uniqueids[k].channel)
           THEN /\ threads' = [threads EXCEPT ![CliThread].cur = k + 1]
                /\ UNCHANGED uniqueids
           ELSE /\ uniqueids' = RemoveAt(uniqueids, k)
                /\ UNCHANGED threads
    /\ UNCHANGED <<channels, listlock, allocated>>
    /\ UNCHANGED <<dmvars, trvars, cwvars, dsvars>>

\* lines 152-156: the entries printed, the lock released
ShowPrint ==
    /\ threads[CliThread].pc = "print"
    /\ threads' = [threads EXCEPT ![CliThread].pc = "prompt", ![CliThread].cur = 0,
                                   ![CliThread].shown = uniqueids]
    /\ listlock' = IF listlock = CliThread THEN NoThread ELSE listlock
    /\ UNCHANGED <<channels, uniqueids, allocated>>
    /\ UNCHANGED <<dmvars, trvars, cwvars, dsvars>>

EuniqueidNext ==
    \/ ReadWithoutChannel
    \/ \E t \in Chans : ReadCalled(t)
    \/ \E t \in Chans : ReadWrlock(t)
    \/ \E t \in Chans : ReadTraverse(t)
    \/ \E t \in Chans : ReadInsert(t)
    \/ \E t \in Chans : Hangup(t)
    \/ ShowWrlock
    \/ ShowPurge
    \/ ShowPrint

EuniqueidSpec == EuniqueidInit /\ [][EuniqueidNext]_vars

---------------------------------------------------------------------------
(* C16 *)

\* positions between AST_RWLIST_WRLOCK and AST_RWLIST_UNLOCK
InList == {"traverse", "insert", "purge", "print"}

\* the entries of seq that hold an ID and whose channel exists
InUse(seq) == SelectSeq(seq, LAMBDA u : u.id >= 0 /\ u.channel \in channels)

Distinct(seq) == \A i, j \in 1..Len(seq) : i # j => seq[i].id # seq[j].id

\* C16: the IDs handed out to channels that still exist are pairwise
\* different, in the list and among all the IDs returned, and a thread is
\* between the list's lock and unlock only while it holds the write lock.
C16_UniqueAmongLiveChannels ==
    /\ Distinct(InUse(uniqueids))
    /\ Distinct(InUse(allocated))
    /\ \A t \in EuThreads : threads[t].pc \in InList => listlock = t

\* a call waits for the lock while another one, which found the ID 0 of an
\* existing channel in the list, is about to append the ID 1
C16_Witness ==
    /\ \E t, w \in Chans :
          /\ threads[t].pc = "insert"
          /\ threads[t].id = 1
          /\ threads[w].pc = "wrlock"
          /\ listlock = t
    /\ Len(uniqueids) = 1
    /\ uniqueids[1].channel \in channels

---------------------------------------------------------------------------
(* C17 *)

MaxId(list) == CHOOSE m \in {list[k].id : k \in 1..Len(list)} :
                  \A k \in 1..Len(list) : list[k].id <= m

Given(seq) == SelectSeq(seq, LAMBDA u : u.id >= 0)

OfChannel(seq, c) == SelectSeq(seq, LAMBDA u : u.id >= 0 /\ u.channel = c)

\* C17: the first ID handed out is 0; a call that has purged the list takes
\* 0 when no entry is left and else one more than the highest ID left, which
\* is above every ID of a channel that exists; every successful call of a
\* channel that exists has an entry of its own in the list.
C17_NextAfterHighestInUse ==
    /\ Given(allocated) # <<>> => Given(allocated)[1].id = 0
    /\ \A t \in Chans : threads[t].pc = "insert" =>
          /\ threads[t].id = IF uniqueids = <<>> THEN 0 ELSE MaxId(uniqueids) + 1
          /\ \A k \in 1..Len(allocated) :
                (allocated[k].id >= 0 /\ allocated[k].channel \in channels)
                    => allocated[k].id < threads[t].id
    /\ \A c \in channels : Len(OfChannel(uniqueids, c)) = Len(OfChannel(allocated, c))

\* ch1 got 0, ch2 got 1 and hung up, and a second call of ch1 got 1 again
C17_Witness ==
    /\ allocated = << Uniqueid(0, "ch1"), Uniqueid(1, "ch2"), Uniqueid(1, "ch1") >>
    /\ "ch2" \notin channels
    /\ uniqueids = << Uniqueid(0, "ch1"), Uniqueid(1, "ch1") >>

---------------------------------------------------------------------------
(* apps/app_callerid.c: one run of SendCWCID (cwcid_exec).  What the channel
   and the allocator do (formats refused, malloc failing, frames missing,
   hangup, the digit the CPE answers) is chosen freely at each step. *)

CwcidOptions == {"c", "d", "l", "n", "s"}

\* what ast_waitfordigit returns: -1 on hangup, 0 on timeout, else the digit
WaitResults == {"-1", "0", "A", "D", "5"}

\* ast_gen_cas(buf, sas, len, codec): the alerting signal generated
Alert(sas) == [cas |-> 1, sas |-> sas, len |-> IF sas # 0 THEN 2400 + 680 ELSE 680]

\* any digit taken for the acknowledgment
IsAck_any_digit(res) == res \notin {"-1", "0"}

\* line 445: the acknowledgment of a CPE
IsAck(res) == res = "A" \/ res = "D"

\* pbx_builtin_setvar_helper(chan, "CWCIDSTATUS", value) and the return
CwcidReturn(c, value, ret) == [c EXCEPT !.pc = "done", !.status = value, !.ret = ret]

CwcidInit ==
    /\ CwcidIdle
    /\ DigitmapIdle
    /\ TranslatorIdle
    /\ EuniqueidIdle
    /\ DspeedIdle

\* lines 254-375: the options parsed into cas, sas, ack, dahdi, qualifier.
\* have_dahdi is the build (HAVE_DAHDI), analog whether the channel passes
\* the checks of lines 337-367.
CwcidExec ==
    /\ cwcid.pc = "idle"
    /\ \E options \in SUBSET CwcidOptions, have_dahdi \in BOOLEAN, analog \in BOOLEAN :
          cwcid' = [ pc        |-> "alert",
                     options   |-> options,
                     cas       |-> IF "c" \in options THEN 0 ELSE 1,
                     sas       |-> 1,
                     ack       |-> IF "d" \in options THEN 0 ELSE 1,
                     dahdi     |-> IF "n" \in options /\ have_dahdi /\ analog THEN 1 ELSE 0,
                     qualifier |-> IF "l" \in options THEN 1 ELSE 0,
                     generated |-> <<>>,
                     digit     |-> "none",
                     spill     |-> "none",
                     status    |-> "unset",
                     ret       |-> 0 ]
    /\ UNCHANGED <<dmvars, trvars, euvars, dsvars>>

\* lines 377-436: the CAS, with the SAS in front when sas is set
CwcidAlert ==
    /\ cwcid.pc = "alert"
    /\ IF cwcid.cas = 0
       THEN cwcid' = [cwcid EXCEPT !.pc = "await"]
       ELSE LET gen == [cwcid EXCEPT !.generated = Append(@, Alert(cwcid.sas))]
            IN  IF cwcid.dahdi # 0
                THEN \E outcome \in {"busy", "nomem", "hangup", "ok"} :
                       cwcid' = CASE outcome = "busy"   -> CwcidReturn(cwcid, "FAILURE", 0)
                                  [] outcome = "nomem"  -> CwcidReturn(cwcid, "FAILURE", -1)
                                  [] outcome = "hangup" -> CwcidReturn(gen, "HANGUP", -1)
                                  [] OTHER              -> [gen EXCEPT !.pc = "await"]
                ELSE \E outcome \in {"format", "nomem", "unsent", "ok"} :
                       cwcid' = CASE outcome = "format" -> CwcidReturn(cwcid, "FAILURE", -1)
                                  [] outcome = "nomem"  -> CwcidReturn(cwcid, "FAILURE", -1)
                                  [] outcome = "unsent" -> CwcidReturn(gen, "FAILURE", -1)
                                  [] OTHER              -> [gen EXCEPT !.pc = "await"]
    /\ UNCHANGED <<dmvars, trvars, euvars, dsvars>>

\* lines 438-450: await_ack(chan, 500) and what is made of its result
CwcidAwaitAck ==
    /\ cwcid.pc = "await"
    /\ \E res \in WaitResults :
          LET c == [cwcid EXCEPT !.digit = res]
          IN  cwcid' = IF res = "-1" THEN CwcidReturn(c, "HANGUP", -1)
                       ELSE IF c.ack # 0 /\ ~IsAck(res) THEN CwcidReturn(c, "UNSUPPORTED", 0)
                       ELSE [c EXCEPT !.pc = "spill"]
    /\ UNCHANGED <<dmvars, trvars, euvars, dsvars>>

\* lines 452-529: the FSK spill
CwcidSpill ==
    /\ cwcid.pc = "spill"
    /\ LET sent == [cwcid EXCEPT !.spill = "sent"]
       IN  IF cwcid.dahdi # 0
           THEN \E outcome \in {"hangup before", "nomem", "hangup", "ok"} :
                  cwcid' = CASE outcome = "hangup before" -> CwcidReturn(cwcid, "HANGUP", -1)
                             [] outcome = "nomem"         -> CwcidReturn(cwcid, "FAILURE", -1)
                             [] outcome = "hangup"        ->
                                    CwcidReturn([cwcid EXCEPT !.spill = "cut"], "HANGUP", -1)
                             [] OTHER                     -> CwcidReturn(sent, "SUCCESS", 0)
           ELSE \E outcome \in {"nomem", "unsent", "ok"} :
                  cwcid' = CASE outcome = "nomem"  -> CwcidReturn(cwcid, "FAILURE", -1)
                             [] outcome = "unsent" ->
                                    CwcidReturn([cwcid EXCEPT !.spill = "cut"], "FAILURE", -1)
                             [] OTHER              -> CwcidReturn(sent, "SUCCESS", 0)
    /\ UNCHANGED <<dmvars, trvars, euvars, dsvars>>

CwcidNext ==
    \/ CwcidExec
    \/ CwcidAlert
    \/ CwcidAwaitAck
    \/ CwcidSpill

CwcidSpec == CwcidInit /\ [][CwcidNext]_vars

---------------------------------------------------------------------------
(* C18 *)

CwcidStarted == cwcid.pc # "idle"

\* C18: with option c no alerting signal is generated; with s and without c
\* the signal generated is a CAS without SAS; with neither option the signal
\* generated is a SAS and a CAS.
C18_AlertFollowsOptions ==
    CwcidStarted =>
        /\ "c" \in cwcid.options => cwcid.generated = <<>>
        /\ \A k \in 1..Len(cwcid.generated) :
              /\ cwcid.generated[k].cas = 1
              /\ cwcid.generated[k].sas = (IF "s" \in cwcid.options THEN 0 ELSE 1)

---------------------------------------------------------------------------
(* C19 *)

CwcidDone == cwcid.pc = "done"

\* the acknowledgment wait ended without a hangup and without an A or a D
NoAck == cwcid.digit \notin {"none", "-1", "A", "D"}

\* C19: CWCIDSTATUS is UNSUPPORTED exactly when option d is not used and
\* the acknowledgment wait ended, without a hangup, with no A or D; then no
\* part of the spill was sent and 0 is returned.  With option d UNSUPPORTED
\* is never set, and a wait that ends without a hangup is followed by the
\* spill whatever was received.
C19_UnsupportedIffNoAck ==
    /\ CwcidDone =>
          ((cwcid.status = "UNSUPPORTED") <=> ("d" \notin cwcid.options /\ NoAck))
    /\ (CwcidStarted /\ cwcid.status = "UNSUPPORTED") => (cwcid.spill = "none" /\ cwcid.ret = 0)
    /\ (CwcidStarted /\ "d" \in cwcid.options) =>
          /\ cwcid.status # "UNSUPPORTED"
          /\ cwcid.digit \notin {"none", "-1"} =>
                (cwcid.pc = "spill" \/ cwcid.status \in {"SUCCESS", "FAILURE", "HANGUP"})
          /\ (CwcidDone /\ cwcid.status = "SUCCESS") => cwcid.spill = "sent"
    /\ (CwcidStarted /\ cwcid.spill # "none") =>
          (cwcid.ack = 0 \/ IsAck(cwcid.digit))

\* without option d the wait timed out: UNSUPPORTED, nothing sent
C19_Witness ==
    /\ CwcidDone
    /\ "d" \notin cwcid.options
    /\ cwcid.digit = "0"
    /\ cwcid.status = "UNSUPPORTED"
    /\ cwcid.spill = "none"
    /\ Len(cwcid.generated) = 1

---------------------------------------------------------------------------
(* res/res_dialpulse.c: one run of DialSpeedTest (dspeed_exec and
   dspeed_test), in the build without HAVE_DAHDI.  Time is what the clock
   reads add up to: the milliseconds between two pulses are chosen from
   PulseGaps, and the expiry of a timeout is chosen freely. *)

PULSES_WANTED == 10

AUTO_20PPS_BELOW == 650

DspeedOptions == {"d", "r", "t"}

\* the timeout argument, in seconds (0: none given or invalid)
TimeoutArgs == {0, 5}

\* the pps argument as atoi reads it
PpsArgs == {0, 10, 15, 20}

\* milliseconds between the clock reads of two consecutive pulses
PulseGaps == {40, 100, 130}

\* milliseconds between the two clock reads of the first pulse, lines 184-187
FirstPulseSkew == {0, 1}

\* lines 199-202: what dspeed_test returns
TestResult(res, pulsecount, elapsed) == IF pulsecount # 0 THEN elapsed ELSE res

\* lines 286-288: the nominal speed when none was given
NominalPps(pps, res, pulsecount) ==
    IF pps # 0 THEN pps
    ELSE IF res < AUTO_20PPS_BELOW /\ pulsecount = PULSES_WANTED THEN 20 ELSE 10

\* lines 309-333 on dialpps = 1000 * (pulsecount - 1) / res, compared without
\* rounding: both sides multiplied by 2 * res
Classify(pps, readjust, res, pulsecount) ==
    LET twice == 2 * 1000 * (pulsecount - 1)
    IN  IF twice < (2 * pps - (IF readjust # 0 THEN 1 ELSE 4)) * res THEN "SLOW"
        ELSE IF twice > (2 * pps + (IF readjust # 0 THEN 1 ELSE 2)) * res THEN "FAST"
        ELSE "NORMAL"

\* "%.3f" of dialpps, as thousandths of a pulse per second
SpeedText(res, pulsecount) == (2 * 1000 * 1000 * (pulsecount - 1) + res) \div (2 * res)

DspeedInit ==
    /\ DspeedIdle
    /\ DigitmapIdle
    /\ TranslatorIdle
    /\ EuniqueidIdle
    /\ CwcidIdle

\* dspeed_exec, lines 205-268: the arguments parsed, the dial tone started,
\* dspeed_test entered
DspeedExec ==
    /\ dspeed.pc = "idle"
    /\ \E options \in SUBSET DspeedOptions, tosec \in TimeoutArgs, ppsarg \in PpsArgs :
          dspeed' = [ pc          |-> "test",
                      tone        |-> IF "t" \in options THEN 1 ELSE 0,
                      readjust    |-> IF "r" \in options THEN 1 ELSE 0,
                      diagnostics |-> IF "d" \in options THEN 1 ELSE 0,
                      to          |-> IF tosec <= 0 THEN 0 ELSE tosec * 1000,
                      pps         |-> IF ppsarg # 0 /\ ppsarg # 10 /\ ppsarg # 20 THEN 0 ELSE ppsarg,
                      pulsecount  |-> 0,
                      elapsed     |-> 0,
                      res         |-> 0,
                      ended       |-> "running",
                      DIALPULSERESULT |-> "unset",
                      DIALPULSESPEED  |-> -1,
                      DIALPULSECOUNT  |-> -1,
                      ret         |-> 0 ]
    /\ UNCHANGED <<dmvars, trvars, euvars, cwvars>>

\* the loop left: lines 199-202 and the return into dspeed_exec
DspeedLeave(d, how) ==
    [d EXCEPT !.pc = "result", !.ended = how,
              !.res = TestResult(d.res, d.pulsecount, d.elapsed)]

\* dspeed_test, lines 161-198: one iteration of the loop
DspeedTest ==
    /\ dspeed.pc = "test"
    /\ \E expired \in BOOLEAN, quiet \in BOOLEAN,
          event \in {"nothing", "hangup", "pulse", "other"},
          gap \in PulseGaps, skew \in FirstPulseSkew :
          dspeed' =
            IF dspeed.to > 0 /\ expired
            THEN DspeedLeave(dspeed, "timeout")
            ELSE IF dspeed.to = 0 /\ dspeed.diagnostics # 0 /\ dspeed.pulsecount > 1 /\ quiet
            THEN DspeedLeave(dspeed, "quiet")
            ELSE IF event = "nothing"
            THEN [dspeed EXCEPT !.res = -1]
            ELSE IF event = "hangup"
            THEN DspeedLeave([dspeed EXCEPT !.res = -1], "hangup")
            ELSE IF event = "pulse"
            THEN LET n == dspeed.pulsecount + 1
                     d == [dspeed EXCEPT !.pulsecount = n,
                                         !.elapsed = IF n = 1 THEN skew ELSE @ + gap]
                 IN  IF n = PULSES_WANTED THEN DspeedLeave(d, "ten") ELSE d
            ELSE dspeed
    /\ UNCHANGED <<dmvars, trvars, euvars, cwvars>>

\* dspeed_exec, lines 269-401: the channel variables set from the result
DspeedResult ==
    /\ dspeed.pc = "result"
    /\ LET d   == dspeed
           pps == NominalPps(d.pps, d.res, d.pulsecount)
       IN  dspeed' =
             IF d.res = -1
             THEN [d EXCEPT !.pc = "done", !.DIALPULSERESULT = "HANGUP", !.ret = -1]
             ELSE IF d.res = 0
             THEN [d EXCEPT !.pc = "done", !.DIALPULSERESULT = "TIMEOUT"]
             ELSE IF d.res > 0
             THEN [d EXCEPT !.pc = "done", !.pps = pps,
                            !.DIALPULSESPEED = SpeedText(d.res, d.pulsecount),
                            !.DIALPULSECOUNT = d.pulsecount,
                            !.DIALPULSERESULT = Classify(pps, d.readjust, d.res, d.pulsecount),
                            !.tone = IF Classify(pps, d.readjust, d.res, d.pulsecount) = "NORMAL"
                                     THEN 0 ELSE @]
             ELSE [d EXCEPT !.pc = "done", !.DIALPULSERESULT = "ERROR"]
    /\ UNCHANGED <<dmvars, trvars, euvars, cwvars>>

DspeedNext ==
    \/ DspeedExec
    \/ DspeedTest
    \/ DspeedResult

DspeedSpec == DspeedInit /\ [][DspeedNext]_vars

---------------------------------------------------------------------------
(* C20 *)

DspeedDone == dspeed.pc = "done"

Measured == {"SLOW", "NORMAL", "FAST"}

\* C20: outside diagnostics mode a finished run has SLOW, NORMAL or FAST
\* (and then the speed set and a count of 10) only after ten pulses, HANGUP
\* when the channel hung up before the tenth pulse and TIMEOUT when the
\* timeout expired before the tenth pulse, however many pulses had arrived.
C20_OutcomeFollowsHowTheTestEnded ==
    (DspeedDone /\ dspeed.diagnostics = 0) =>
        /\ dspeed.DIALPULSERESULT \in Measured =>
              /\ dspeed.pulsecount = PULSES_WANTED
              /\ dspeed.DIALPULSECOUNT = PULSES_WANTED
              /\ dspeed.DIALPULSESPEED >= 0
        /\ dspeed.ended = "hangup" => dspeed.DIALPULSERESULT = "HANGUP"
        /\ dspeed.ended = "timeout" => dspeed.DIALPULSERESULT = "TIMEOUT"

---------------------------------------------------------------------------
(* C21 *)

\* the frames whose context is on the include stack: every call that has
\* passed line 83 and not yet line 262
Pushed(f) == f.pc \in {"exts", "chars", "incs", "call"}

\* C21: the include stack never holds a context name twice, compared as the
\* cycle guard compares names; its entries are, in order, the contexts of the
\* generate calls under way, the root in the first slot.
C21_NoNameTwiceOnStack ==
    /\ Len(includes) = includecount
    /\ \A i, j \in 1..includecount :
          i # j => ~strcasecmp_eq(includes[i], includes[j])
    /\ \A k \in 1..includecount :
          /\ k <= Depth
          /\ Pushed(frames[k])
          /\ frames[k].context = includes[k]
    /\ includecount >= 1 => includes[1] = root

\* three contexts are on the stack and a circular include has been refused
C21_Witness ==
    /\ includecount = 3
    /\ HasLog("WARNING", "Avoiding circular include")
    /\ Top.pc = "exts"

---------------------------------------------------------------------------
(* C22 *)

\* the innermost call is at an include entry while the stack is at its maximum
IncludeAtMaxDepth ==
    /\ Running
    /\ Top.pc = "incs"
    /\ MoreIncludes(Top)
    /\ includecount >= AST_PBX_MAX_STACK

\* C22: the include-stack depth stays within 0..AST_PBX_MAX_STACK, so no slot
\* at or beyond the maximum is written; an include met with the stack at the
\* maximum gets the maximum-depth diagnostic and no call, the result so far
\* is kept and the walk goes on to the next include.
C22_DepthBoundedAndSkipped ==
    /\ [](/\ includecount \in 0..AST_PBX_MAX_STACK
          /\ Len(includes) <= AST_PBX_MAX_STACK
          /\ Depth <= AST_PBX_MAX_STACK)
    /\ [][IncludeAtMaxDepth =>
            /\ log' = Append(log, DepthMsg)
            /\ Len(frames') = Depth
            /\ pc' = pc
            /\ includes' = includes
            /\ includecount' = includecount
            /\ frames'[Depth].res = Top.res
            /\ frames'[Depth].idx = Top.idx + 1
            /\ frames'[Depth].pc = "incs"]_vars

\* a generation that skipped an include at the maximum depth succeeded
C22_Witness ==
    /\ Done
    /\ HasLog("WARNING", "Maximum include depth exceeded!")
    /\ retval = 0
    /\ Len(cli) = 1

---------------------------------------------------------------------------
(* C23 *)

Held(ctx) == \E k \in 1..Len(locks) : locks[k] = ctx

\* C23: a generation holds the read lock of at most one context at a time,
\* and a call that has descended into an included context no longer holds
\* the lock of its own context.
C23_LockAroundOwnEntriesOnly ==
    /\ Cardinality({locks[k] : k \in 1..Len(locks)}) <= 1
    /\ \A k \in 1..Depth : frames[k].pc = "call" => ~Held(frames[k].context)

---------------------------------------------------------------------------
(* C24 *)

\* the innermost call is about to take the read lock of its context, line 85
AboutToLock == Running /\ Top.pc = "find" /\ ast_context_find(store, Top.context)

\* C24: no lock is held twice, and a call that is about to take the read lock
\* of its context never finds that lock already held by the generation.
C24_NoSecondAcquisition ==
    /\ \A i, j \in 1..Len(locks) : i # j => locks[i] # locks[j]
    /\ AboutToLock => ~Held(Top.context)

\* a context that includes itself had that include refused while its lock
\* was held
C24_Witness ==
    /\ Running
    /\ \E k \in 1..Len(log) :
          /\ log[k].msg = "Avoiding circular include"
          /\ ParseInclude(log[k].a).includename = log[k].b
          /\ Held(log[k].b)

---------------------------------------------------------------------------
(* C25 *)

\* C25: the locks held are exactly those of the calls between their line 85
\* and their line 259, one each: a call that has left, by whatever path, has
\* released its lock, and when generate_digit_map_all has returned no lock
\* is held.
C25_EveryLockReleased ==
    /\ \A k \in 1..Depth : Held(frames[k].context) <=> Pushed(frames[k])
    /\ Len(locks) = Cardinality({k \in 1..Depth : Pushed(frames[k])})
    /\ Done => locks = <<>>

\* a generation failed inside an included context after two contexts had
\* been locked, and holds no lock
C25_Witness ==
    /\ Done
    /\ retval = -1
    /\ locks = <<>>
    /\ Cardinality({log[k].a : k \in {j \in 1..Len(log) : log[j].msg = "Crawling context"}}) >= 2

---------------------------------------------------------------------------
(* C26 *)

\* the contexts of the calls that enclose the innermost one, outermost first
Enclosing == [k \in 1..(Depth - 1) |-> frames[k].context]

\* C26: when a call of generate_digit_map is entered and when it has
\* returned, with a byte count or with -1, the include stack holds the
\* contexts of the enclosing calls and nothing else, so the stack after the
\* call is the stack at the call; it is empty once generate_digit_map_all
\* has returned.
C26_StackRestoredOnReturn ==
    /\ (Running /\ Top.pc \in {"find", "ret"}) =>
          /\ includecount = Depth - 1
          /\ includes = Enclosing
    /\ Done => (includecount = 0 /\ includes = <<>>)

\* a nested call that had pushed its context returned -1
C26_Witness ==
    /\ Running
    /\ Depth >= 2
    /\ Top.pc = "ret"
    /\ Top.ret = -1
    /\ Logged("Crawling context", Top.context)
    /\ includes = Enclosing

---------------------------------------------------------------------------
(* C27 *)

\* the fragments the generation appends: separators, expansions, one
\* character, the prefix of the innermost call
Fragments ==
    { <<"|">>, <<",">>, <<"x">>, <<"S", "0">>, <<"[", "2", "-", "9", "]">> }
        \cup (IF Depth > 0 THEN {Top.prefix} ELSE {})

\* the write cursor of call f, before any break
Cursor(f) == [mem |-> mem, buf |-> f.buf, len |-> f.len, res |-> f.res, brk |-> FALSE]

\* C27: at every cursor a generation reaches, an append of n bytes fails
\* exactly when n >= remaining, and then leaves cursor and remaining as they
\* were; otherwise both move by n.  In every call cursor + remaining is
\* BUF_SIZE and remaining is at least 1.
C27_AppendFailsIffNoRoom ==
    /\ \A k \in 1..Depth :
          /\ frames[k].buf >= 0
          /\ frames[k].len >= 1
          /\ frames[k].buf + frames[k].len = BUF_SIZE
    /\ Depth > 0 =>
          \A frag \in Fragments :
              LET w == Cursor(Top)
                  a == buf_append(w, frag)
                  n == Len(frag)
              IN  /\ a.brk <=> n >= w.len
                  /\ a.brk => (a.res = -1 /\ a.buf = w.buf /\ a.len = w.len)
                  /\ ~a.brk => (a.res = w.res /\ a.buf = w.buf + n /\ a.len = w.len - n)

\* an append has failed and fewer than five bytes remain, so that the next
\* fragments fail or fit according to their length
C27_Witness ==
    /\ Running
    /\ Top.pc = "exts"
    /\ Top.res = -1
    /\ Top.len \in 2..4
    /\ Top.buf + Top.len = BUF_SIZE

---------------------------------------------------------------------------
(* C28 *)

\* C28: once an append of a call has failed (its res is -1), no later step
\* moves that call's write cursor or changes the buffer, the call enters no
\* include, and its res stays -1 until it has returned.
C28_FirstFailureAborts ==
    [][\A k \in 1..Depth :
          frames[k].res = -1 =>
              /\ mem' = mem
              /\ Len(frames') <= Depth
              /\ k <= Len(frames') =>
                    /\ frames'[k].buf = frames[k].buf
                    /\ frames'[k].res = -1]_vars

---------------------------------------------------------------------------
(* C29 *)

\* C29: what the loop writes for a pattern is the concatenation, in order,
\* of the images of its characters: [2-9] for N, [1-9] for Z, x for X, S0
\* for !, the character itself otherwise, also inside a bracket class and
\* where a diagnostic is raised.
C29_TranslationIsImageByImage ==
    Len(outputs) >= 1 => outputs[1] = Translate(pattern)

\* a pattern with a period and a ! inside an open bracket was translated
C29_Witness ==
    /\ pattern = <<"[", ".", "!">>
    /\ Len(outputs) >= 1
    /\ outputs[1] = <<"[", ".", "S", "0">>

---------------------------------------------------------------------------
(* C30 *)

\* the bracket classes of a name: what stands between a '[' and the next ']'
ClassesOf(name) ==
    { SubSeq(name, i + 1, j - 1) :
        <<i, j>> \in { p \in (1..Len(name)) \X (1..Len(name)) :
                         /\ p[1] < p[2]
                         /\ name[p[1]] = "["
                         /\ name[p[2]] = "]"
                         /\ \A k \in (p[1] + 1)..(p[2] - 1) : name[k] \notin {"[", "]"} } }

RangeIn(cls) == \E k \in 1..Len(cls) : cls[k] = "-"

\* a character of the class that is no end of a range
BareIn(cls) ==
    \E k \in 1..Len(cls) :
        /\ cls[k] # "-"
        /\ k = 1 \/ cls[k - 1] # "-"
        /\ k = Len(cls) \/ cls[k + 1] # "-"

NotRepresentableMsg == "Generated digit map will be invalid"

\* C30: the diagnostic raised at the close of a bracket class is logged only
\* for a name with a class that holds both a bare digit and a range; classes
\* of bare digits only, of one range or of several ranges raise none.
C30_DiagnosticOnlyForMixedClass ==
    \A k \in 1..Len(log) :
        log[k].msg = NotRepresentableMsg =>
            \E cls \in ClassesOf(log[k].a) : BareIn(cls) /\ RangeIn(cls)

---------------------------------------------------------------------------
(* C31 *)

InvalidMsg == "Dialplan is invalid"

\* the innermost call stands in front of character ch of a pattern with the
\* bracket depth at d, and the step processes that character
CharStep(ch, d) ==
    /\ Running
    /\ Top.pc = "chars"
    /\ Head(Top.name) = ch
    /\ Top.in_pattern = d
    /\ Len(frames') = Depth
    /\ frames'[Depth].e = Top.e
    /\ frames'[Depth].name = Tail(Top.name)

\* the step logged the invalid-pattern diagnostic
InvalidLogged ==
    \E k \in (Len(log) + 1)..Len(log') : log'[k].level = "WARNING" /\ log'[k].msg = InvalidMsg

\* C31: the bracket depth is 0 in front of the first character of every
\* pattern and 0 or 1 after each character; a '[' met at depth 1 is logged
\* as invalid and leaves the depth at 1, a ']' met at depth 0 is logged as
\* invalid and leaves the depth at 0; a '[' at depth 0 and a ']' at depth 1
\* move the depth to 1 and 0 without that diagnostic.
C31_BracketDepthClamped ==
    /\ [](\A k \in 1..Depth : frames[k].in_pattern \in {0, 1})
    /\ []((Running /\ Top.pc = "chars"
             /\ Top.name = StripSentinel(store[Top.context].exts[Top.e].name))
            => Top.in_pattern = 0)
    /\ [][/\ CharStep("[", 1) => (frames'[Depth].in_pattern = 1 /\ InvalidLogged)
          /\ CharStep("]", 0) => (frames'[Depth].in_pattern = 0 /\ InvalidLogged)
          /\ CharStep("[", 0) => (frames'[Depth].in_pattern = 1 /\ ~InvalidLogged)
          /\ CharStep("]", 1) => (frames'[Depth].in_pattern = 0 /\ ~InvalidLogged)]_vars

\* the pattern ]N[[[2 has been walked up to its last character: one ']' at
\* depth 0 and two '[' at depth 1 were logged, and the depth is 1
C31_Witness ==
    /\ Running
    /\ Top.pc = "chars"
    /\ store[Top.context].exts[Top.e].name = <<"_", "]", "N", "[", "[", "[", "2">>
    /\ Top.name = <<"2">>
    /\ Top.in_pattern = 1
    /\ CountLog(InvalidMsg, <<"_", "]", "N", "[", "[", "[", "2">>) = 3

---------------------------------------------------------------------------
(* C32 *)

\* the innermost call has returned to an including call, successfully
SuccessfulReturn == Running /\ Depth >= 2 /\ Top.pc = "ret" /\ Top.ret >= 0

\* C32: a call that returns successfully returns the bytes the buffer has
\* grown by since the call was entered, its own and those of its recursive
\* calls; the including call goes on with the cursor and the remaining
\* capacity the returned call ended with; no step changes a byte in front
\* of the cursor of the innermost call.
C32_ReturnsBytesCommitted ==
    /\ []((Running /\ Top.pc = "find") => Top.start = Len(mem))
    /\ []((Running /\ Top.pc = "ret" /\ Top.ret >= 0) =>
            /\ Top.ret = Len(mem) - Top.start
            /\ Top.buf = Len(mem))
    /\ [][SuccessfulReturn =>
            /\ Len(frames') = Depth - 1
            /\ frames'[Depth - 1].buf = Top.buf
            /\ frames'[Depth - 1].len = Top.len]_vars
    /\ [][Running =>
            /\ Len(mem') >= Top.buf
            /\ SubSeq(mem', 1, Top.buf) = SubSeq(mem, 1, Top.buf)]_vars

\* a call entered behind committed bytes, which itself made a recursive
\* call, has returned its byte count
C32_Witness ==
    /\ Running
    /\ Depth = 2
    /\ Top.pc = "ret"
    /\ Top.start > 0
    /\ Top.ret > 0
    /\ Top.idx >= 1
    /\ Cardinality({log[k].a : k \in {j \in 1..Len(log) : log[j].msg = "Crawling context"}}) = 3

---------------------------------------------------------------------------
(* C33 *)

\* how many '|' an include entry holds
Bars(inc) == Cardinality({k \in 1..Len(inc) : inc[k] = "|"})

\* the include's name without its arguments: what stands in front of the
\* first '|' or ','
NameOnly(inc) ==
    LET cut == {k \in 1..Len(inc) : inc[k] \in {"|", ","}}
    IN  IF cut = {} THEN inc
        ELSE SubSeq(inc, 1, (CHOOSE k \in cut : \A j \in cut : k <= j) - 1)

\* the include entry through which call k was entered
EnteredBy(k) == IncludeAt(frames[k - 1])

\* C33: a call entered through an include entry with fewer than two '|' (no
\* arguments, or a first argument only) has the prefix of the including
\* call and the include's bare name as its context, and no such include
\* makes the generation fault.
C33_NoSecondArgumentNoSubPrefix ==
    /\ \A k \in 2..Depth :
          Bars(EnteredBy(k)) < 2 =>
              /\ frames[k].prefix = frames[k - 1].prefix
              /\ frames[k].context = NameOnly(EnteredBy(k))
    /\ pc # "crashed"

---------------------------------------------------------------------------
(* C34 *)

\* the second positional argument of an include entry: what stands behind
\* its second '|'
SubPrefixOf(inc) ==
    LET bars == {k \in 1..Len(inc) : inc[k] = "|"}
    IN  IF Cardinality(bars) < 2 THEN <<>>
        ELSE LET b1 == CHOOSE k \in bars : \A j \in bars : k <= j
                 b2 == CHOOSE k \in bars \ {b1} : \A j \in bars \ {b1} : k <= j
             IN  SubSeq(inc, b2 + 1, Len(inc))

\* the accumulated prefixes of the include paths that lead from ctx, reached
\* with prefix below the contexts of path, to target; a path holds no
\* context twice and goes through existing contexts only
RECURSIVE PrefixesTo(_, _, _, _)
PrefixesTo(target, ctx, prefix, path) ==
    LET here  == Append(path, ctx)
        incs  == store[ctx].includes
        sub(k) == LET t == NameOnly(incs[k])
                  IN  IF t = <<>> \/ t \notin DOMAIN store \/ OnStack(here, t)
                      THEN <<>>
                      ELSE PrefixesTo(target, t, prefix \o SubPrefixOf(incs[k]), here)
    IN  (IF ctx = target THEN <<prefix>> ELSE <<>>)
          \o Flatten([k \in 1..Len(incs) |-> sub(k)])

\* the prefixes with which context ctx was entered, as logged
EnteredWith(ctx) ==
    LET ev == SelectSeq(log, LAMBDA m : m.msg = "Crawling context" /\ m.a = ctx)
    IN  [k \in 1..Len(ev) |-> ev[k].b]

\* the alternatives added for entries named name, as logged
AddedFor(name) ==
    LET ev == SelectSeq(log, LAMBDA m : m.msg = "Added to digit map" /\ m.b = name)
    IN  [k \in 1..Len(ev) |-> ev[k].a]

\* the times an entry named name is met over all include paths: one for
\* each context x, entry e of x with that name that takes part, and path k to x
Ways(name) ==
    UNION { { <<x, e, k>> :
                e \in {i \in 1..Len(store[x].exts) :
                          store[x].exts[i].name = name /\ TakesPart(store[x].exts[i])},
                k \in 1..Len(PrefixesTo(x, root, <<>>, <<>>)) } :
            x \in DOMAIN store }

\* every include entry has no '|' or at least two, and every accumulated
\* prefix fits newprefix
PlainIncludes ==
    /\ \A c \in DOMAIN store : \A k \in 1..Len(store[c].includes) :
          Bars(store[c].includes[k]) # 1
    /\ \A c \in DOMAIN store : \A k \in 1..Len(PrefixesTo(c, root, <<>>, <<>>)) :
          Len(PrefixesTo(c, root, <<>>, <<>>)[k]) < NEWPREFIX_SIZE

\* C34: in a successful generation every context is entered once for each
\* include path that leads to it from the root, with that path's
\* accumulated prefix, also when several paths lead to it; each of its
\* entries that take part is added once per path, and for every path one of
\* the alternatives added for the entry begins with that path's prefix.
C34_VisitedOncePerPath ==
    (Done /\ retval = 0 /\ RootFound /\ PlainIncludes) =>
        /\ \A c \in DOMAIN store : EnteredWith(c) = PrefixesTo(c, root, <<>>, <<>>)
        /\ \A c \in DOMAIN store : \A e \in 1..Len(store[c].exts) :
              LET name == store[c].exts[e].name
              IN  /\ Len(AddedFor(name)) = Cardinality(Ways(name))
                  /\ TakesPart(store[c].exts[e]) =>
                        \A k \in 1..Len(PrefixesTo(c, root, <<>>, <<>>)) :
                            \E j \in 1..Len(AddedFor(name)) :
                                IsPrefix(PrefixesTo(c, root, <<>>, <<>>)[k], AddedFor(name)[j])

\* the diamond A -> B -> C, A -> C: C was entered twice, with the prefixes
\* 86 and 7, and the map holds its alternative once for each
C34_Witness ==
    /\ Done
    /\ retval = 0
    /\ root = A
    /\ EnteredWith(C) = << <<"8", "6">>, <<"7">> >>
    /\ EnteredWith(B) = << <<"8">> >>
    /\ Len(cli) = 1
    /\ Count(Split(cli[1]), <<"8", "6", "9", ".">>) = 1
    /\ Count(Split(cli[1]), <<"7", ",", "9", ".">>) = 1

=============================================================================
